---- MODULE Spec2Model ----
(***************************************************************************)
(* Model of the bot platform: the Flask runner server                      *)
(* (bot_runner_server.py) and the Modal volume-backed runtime              *)
(* (modal_platform/bot_runtime.py).                                        *)
(*                                                                         *)
(* Spec      : runner server, one request at a time (handlers atomic).     *)
(* SpecWebhook : runner server, webhooks forwarded to the bot processes.    *)
(* SpecConc  : runner server, two request threads interleaved at every     *)
(*             access to the shared dictionaries.                          *)
(* SpecUpdate : runner server, update_bot_code statement by statement.     *)
(* SpecStore : Modal runtime, storing and loading bot files on the volume. *)
(* SpecHook  : Modal runtime, webhooks of the web service.                 *)
(* SpecVolume : Modal runtime, every operation on the volume, each in its  *)
(*             own container.                                              *)
(* SpecLog   : add_bot_log alone, driven past its capacity.                *)
(* SpecForward : a webhook request on each side, with its suspension       *)
(*             points.                                                     *)
(* SpecSource : runner server, the requests that touch a bot's source.     *)
(* SpecCapture : runner server, the capture thread of each process.        *)
(* SpecRestore : Modal runtime, a store followed by webhooks.              *)
(* SpecRunnerLog : runner server, webhooks for one bot over and over.      *)
(* SpecRewrite : runner server, create and update over every short source. *)
(* SpecLogs  : runner server, the logs request.                            *)
(* SpecRerun : runner server, a bot started again while the capture        *)
(*             thread of its earlier process is alive.                     *)
(* SpecTokens : Modal runtime, webhooks of bots with different tokens.     *)
(* SpecLoadRace : Modal runtime, two webhooks interleaved at the awaits of *)
(*             the load.                                                   *)
(* SpecAppend : Modal runtime, appends to and reads of a bot's log file.   *)
(* SpecLoad  : Modal runtime, optimized_load_bot_files over every state of *)
(*             a bot's directory.                                          *)
(***************************************************************************)
EXTENDS Integers, Sequences, FiniteSets, TLC

VARIABLES
    \* ---- runner server (bot_runner_server.py) ----
    hash_of,        \* Python's hash() of each botId, fixed per server process
    procs,          \* every process spawned so far: pid -> [bot, st, cap, got, out]
    running_bots,   \* dict botId -> pid
    bot_logs,       \* dict botId -> list of log entries
    bot_errors,     \* dict botId -> last error text
    bot_file,       \* files bot_<id>.py on disk: dict botId -> content
    response,       \* the response of the request that has just completed
    last_ok,        \* history: last successful lifecycle request per botId
    thr,            \* requests in progress (SpecConc, SpecForward)
    \* ---- Modal runtime (modal_platform/bot_runtime.py) ----
    vol,            \* committed state of the volume: dict path -> content
    mnt,            \* each container's mounted view of the volume
    dirty,          \* each container's paths written since its last commit/reload
    m_bot_logs,     \* bot_logs of each container's process: dict botId -> list
    bot_instances,  \* bot_instances of the web service process
    environ,        \* os.environ of the web service process (what the code sets)
    m_response,     \* the result of the Modal call that has just completed
    stored_code,    \* history: outcome of the last store call per (user, bot)
    n_calls         \* numbers of calls of each kind made so far

runnerVars == <<hash_of, procs, running_bots, bot_logs, bot_errors, bot_file,
                response, last_ok, thr>>

modalVars == <<vol, mnt, dirty, m_bot_logs, bot_instances, environ, m_response,
               stored_code, n_calls>>

vars == <<runnerVars, modalVars>>

(***************************************************************************)
(* Bounds and small input sets                                             *)
(***************************************************************************)
Bots == {"b1", "b2"}
\* the hash() functions considered (hash is fixed per server process): b1 and
\* b2 on two ports (7, 8) and on the same port (7 and 1007 collide modulo 1000)
HashSeeds == {[b \in Bots |-> IF b = "b1" THEN 7 ELSE h] : h \in {8, 1007}}
MaxProcs == 2
MaxLogLen == 2
\* how many updates a bot process is sent
MaxGot == 2
\* how many lines a bot process writes to each of its pipes
MaxOut == 1

\* Python dictionaries are functions with a varying domain
EmptyDict == [x \in {} |-> 0]
DictSet(d, k, v) == [x \in (DOMAIN d) \cup {k} |-> IF x = k THEN v ELSE d[x]]
DictDel(d, k) == [x \in (DOMAIN d) \ {k} |-> d[x]]

NoResponse ==
    [op |-> "none", bot |-> "none", kind |-> "none", success |-> FALSE,
     error |-> "", running |-> FALSE, forwarded |-> FALSE,
     outcome |-> "none", to |-> 0, code |-> "none", logs |-> << >>]

\* jsonify(...) of a handler: an HTTP 200 with a JSON body
Json(op, b, success, error) ==
    [NoResponse EXCEPT !.op = op, !.bot = b, !.kind = "json",
                       !.success = success, !.error = error]

\* an exception that leaves the handler: Flask answers HTTP 500
Unhandled(op, b, error) ==
    [NoResponse EXCEPT !.op = op, !.bot = b, !.kind = "exception",
                       !.error = error]

NoThreads == [t \in {} |-> 0]

(***************************************************************************)
(* Processes                                                               *)
(***************************************************************************)
Pids == DOMAIN procs

\* subprocess.Popen(...): a new process for bot b with its capture thread
NewProcess(b) ==
    [bot |-> b, st |-> "alive", cap |-> "reading", got |-> << >>,
     out |-> [stdout |-> 0, stderr |-> 0]]
Spawned(b) == Append(procs, NewProcess(b))

\* a terminate that signals nothing
Terminated_nothing(ps, p) == ps

\* process.terminate(): SIGTERM; no effect on a process that has exited
\* (what the process was sent goes with it)
Terminated(ps, p) ==
    IF ps[p].st = "alive" THEN [ps EXCEPT ![p].st = "terminated", ![p].got = << >>] ELSE ps

\* process.poll() is None
Polls(p) == procs[p].st = "alive"

\* port = 5000 + hash(bot_id) % 1000
Port(b) == 5000 + (hash_of[b] % 1000)

\* the live processes bound to a port
Listeners(port) == {p \in Pids : procs[p].st = "alive" /\ Port(procs[p].bot) = port}

\* hash() values of b1 in other server processes: negative, and past 1000
WideSeeds == {[b \in Bots |-> IF b = "b1" THEN h ELSE 8] : h \in {7, -2, 1999}}

\* the server's dictionaries at start, under one of the given hash functions
RunnerInitWith(seeds) ==
    /\ hash_of \in seeds
    /\ procs = << >>
    /\ running_bots = EmptyDict
    /\ bot_logs = EmptyDict
    /\ bot_errors = EmptyDict
    /\ bot_file = EmptyDict
    /\ response = NoResponse
    /\ last_ok = [b \in Bots |-> [op |-> "none", pid |-> 0]]

RunnerInit == RunnerInitWith(HashSeeds)

(***************************************************************************)
(* Modal runtime: the volume                                               *)
(***************************************************************************)
Users == {"u1", "u2"}
MBots == {"b1"}
\* every Modal function runs in containers of its own: those of
\* optimized_store_bot_files, that of optimized_load_bot_files, and the
\* web service's
StoreCtx == {"s1", "s2"}
LoadCtx == {"l1"}
\* the containers of append_bot_log_to_volume and get_bot_logs_from_volume
LogCtx == {"a1", "g1"}
Ctx == StoreCtx \cup LoadCtx \cup LogCtx \cup {"web"}

\* source texts, as sequences of characters: a text that defines
\* `application`, the same with a Windows line ending, and one without it
GoodCode == <<"app">>
CrlfCode == <<"app", "\r", "\n">>
PlainCode == <<"x">>
\* a later version of the text that defines `application`
NewCode == <<"app", "v2">>
MCodes == {GoodCode, CrlfCode, PlainCode}

MaxStores == 3
MaxReads == 1
MaxHooks == 2
MaxHookStores == 2
MaxWritten == 2
MaxGets == 1
MaxVolumeOps == 4
\* how far past its capacity one bot's log is driven, and how many entries
\* the other bots get meanwhile
MaxOverflow == 2
MaxOther == 2

\* paths under /data/bots/<user_id>/<bot_id>/
MainPy(u, b) == <<u, b, "main.py">>
MetaJson(u, b) == <<u, b, "metadata.json">>
BotLog(u, b) == <<u, b, "logs/bot.log">>

\* os.path.exists(f"/data/bots/{user_id}/{bot_id}") in a view of the volume
DirExists(view, u, b) == \E p \in DOMAIN view : p[1] = u /\ p[2] = b

\* f.write(text) on a file opened in text mode: on the Linux image
\* os.linesep is "\n", so no character is changed
WriteText(text) == text

\* f.read() of a file opened in text mode with the default newline=None:
\* universal newlines, "\r\n" and "\r" are read as "\n"
RECURSIVE ReadText(_)
ReadText(bytes) ==
    IF bytes = << >> THEN << >>
    ELSE IF bytes[1] = "\r"
         THEN IF Len(bytes) >= 2 /\ bytes[2] = "\n"
              THEN <<"\n">> \o ReadText(SubSeq(bytes, 3, Len(bytes)))
              ELSE <<"\n">> \o ReadText(Tail(bytes))
         ELSE <<bytes[1]>> \o ReadText(Tail(bytes))

\* a commit that keeps a committed path as it is
Committed_keeps_existing(view, written) ==
    [p \in (DOMAIN vol) \cup written |-> IF p \in DOMAIN vol THEN vol[p] ELSE view[p]]

\* volume.commit() in a container whose view is `view` and which wrote the
\* paths `written` since its last commit: they replace the committed ones
Committed(view, written) ==
    [p \in (DOMAIN vol) \cup written |-> IF p \in written THEN view[p] ELSE vol[p]]

\* a view with one file written
WriteFile(view, path, content) == DictSet(view, path, content)

(***************************************************************************)
(* Modal runtime: the in-memory log                                        *)
(***************************************************************************)
LogCapacity == 1000

\* the trim keeping the first 1000 entries
Trimmed_keeps_oldest(log) ==
    IF Len(log) > LogCapacity THEN SubSeq(log, 1, LogCapacity) ELSE log

\* the list kept after appending: the last 1000 entries
Trimmed(log) ==
    IF Len(log) > LogCapacity
    THEN SubSeq(log, Len(log) - LogCapacity + 1, Len(log))
    ELSE log

\* add_bot_log(bot_id, message, level) on the dictionary bot_logs of a process
add_bot_log(logs, bot_id, entry) ==
    LET old == IF bot_id \in DOMAIN logs THEN logs[bot_id] ELSE << >>
    IN DictSet(logs, bot_id, Trimmed(Append(old, entry)))

\* several add_bot_log calls in a row
RECURSIVE add_bot_logs(_, _, _)
add_bot_logs(logs, bot_id, entries) ==
    IF entries = << >> THEN logs
    ELSE add_bot_logs(add_bot_log(logs, bot_id, Head(entries)), bot_id, Tail(entries))

Info(msg) == [level |-> "INFO", msg |-> msg]
\* an error entry written at the default level
Err_as_info(msg) == [level |-> "INFO", msg |-> msg]
Err(msg) == [level |-> "ERROR", msg |-> msg]

\* a field of the request body: absent (body.get gives None) or given
Absent(empty) == [given |-> FALSE, val |-> empty]
Given(v) == [given |-> TRUE, val |-> v]

Body(user_id, bot_code, bot_token) ==
    [user_id |-> user_id, bot_code |-> bot_code, bot_token |-> bot_token]

\* what a webhook request met: whether the owner scan's reload went through,
\* the tenant the scan took, where load_bot_instance raised, what
\* Update.de_json gave and what process_update did
Met(reload_ok, u, raises, parsed, processed) ==
    [reload_ok |-> reload_ok, user |-> u, raises |-> raises, parsed |-> parsed,
     processed |-> processed]

NoMResponse ==
    [op |-> "none", ctx |-> "none", user |-> "none", bot |-> "none",
     http |-> 200, success |-> FALSE, error |-> "", has_main |-> FALSE,
     main |-> << >>, has_meta |-> FALSE, status |-> "none", invoked |-> FALSE,
     body |-> Body(Absent(""), Absent(<< >>), Absent("")), logs |-> << >>,
     met |-> Met(TRUE, "none", "none", "none", "none")]

ModalInit ==
    /\ vol = EmptyDict
    /\ mnt = [c \in Ctx |-> EmptyDict]
    /\ dirty = [c \in Ctx |-> {}]
    /\ m_bot_logs = [c \in Ctx |-> EmptyDict]
    /\ bot_instances = EmptyDict
    /\ environ = EmptyDict
    /\ m_response = NoMResponse
    /\ stored_code = [d \in Users \X Bots |-> [ok |-> FALSE, code |-> << >>, prev |-> << >>]]
    /\ n_calls = [stores |-> 0, reads |-> 0, hooks |-> 0, appends |-> [b \in Bots |-> 0],
                  written |-> 0, gets |-> 0]

(***************************************************************************)
(* Runner server handlers, one request at a time                           *)
(***************************************************************************)
\* the code written to bot_<id>.py: which rewriting was applied to which source
Written(by, code) == [by |-> by, src |-> code]

Codes == {"code1", "code2"}

(***************************************************************************)
(* The rewriting of submitted source.  A text is a sequence of lines; a    *)
(* line is known by its kind, and the lines the server writes carry the    *)
(* port and the bot id put into them.                                      *)
(***************************************************************************)
MaxSrcLen == 2

Line(kind) == [kind |-> kind, port |-> 0, bot |-> "none"]

\* the lines a submitted source is made of
SourceKinds ==
    {"application.run_polling()", "app.run_polling()", "application.run_webhook(...)",
     "if __name__ == '__main__': main()", "if __name__ == '__main__': run()",
     "def main():", "logger.info('Bot is running')", "pass",
     "from telegram import Update, ParseMode", "from telegram import Update",
     "from telegram.constants import ParseMode", "ParseMode.MARKDOWN_V2"}

RECURSIVE TextsOfLen(_)
TextsOfLen(n) ==
    IF n = 0 THEN {<< >>}
    ELSE {Append(t, Line(k)) : t \in TextsOfLen(n - 1), k \in SourceKinds}

Sources == UNION {TextsOfLen(n) : n \in 0..MaxSrcLen}

\* needle in text, for the lines of these kinds
Contains(text, kinds) == \E i \in 1..Len(text) : text[i].kind \in kinds

\* text.replace(old, new): every line of kind old becomes the lines new
RECURSIVE Replaced(_, _, _)
Replaced(text, old, new) ==
    IF text = << >> THEN << >>
    ELSE (IF Head(text).kind = old THEN new ELSE <<Head(text)>>)
         \o Replaced(Tail(text), old, new)

ImportSplit ==
    <<Line("from telegram import Update"), Line("from telegram.constants import ParseMode")>>

fix_python_telegram_bot_imports(code) ==
    LET first == IF Contains(code, {"from telegram import Update, ParseMode"})
                 THEN Replaced(code, "from telegram import Update, ParseMode", ImportSplit)
                 ELSE code
    IN  IF /\ Contains(first, {"ParseMode.MARKDOWN_V2"})
           /\ ~Contains(first, {"from telegram.constants import ParseMode"})
        THEN Replaced(first, "from telegram import Update", ImportSplit)
        ELSE first

\* a port that is the hash itself past 5000
code_port_unreduced(b) == 5000 + hash_of[b]

\* {5000 + hash(bot_id) % 1000} in the text create_bot and update_bot_code write
code_port(b) == 5000 + (hash_of[b] % 1000)

\* application.run_webhook(listen="0.0.0.0", port=..., webhook_url=.../webhook/{bot_id})
run_webhook_call(b) ==
    [kind |-> "application.run_webhook(listen, port, webhook_url)",
     port |-> code_port(b), bot |-> b]

\* the block "# Set up webhook ... application.run_webhook(...)" of create_bot
webhook_setup(b) == [kind |-> "webhook_setup", port |-> code_port(b), bot |-> b]

\* fixed_code.replace('application.run_polling()', 'application.run_webhook(...)')
polling_replaced(b, fixed_code) ==
    Replaced(fixed_code, "application.run_polling()", <<run_webhook_call(b)>>)

\* the last line with 'logger.info(' and 'running' gets the setup after it
RECURSIVE setup_after_last_running(_, _)
setup_after_last_running(text, b) ==
    IF text = << >> THEN << >>
    ELSE IF text[Len(text)].kind = "logger.info('Bot is running')"
         THEN Append(text, webhook_setup(b))
         ELSE Append(setup_after_last_running(SubSeq(text, 1, Len(text) - 1), b),
                     text[Len(text)])

\* the text create_bot writes to bot_<id>.py
create_webhook_code(b, python_code) ==
    LET fixed_code == fix_python_telegram_bot_imports(python_code)
        webhook_code == polling_replaced(b, fixed_code)
    IN  IF /\ ~Contains(fixed_code, {"application.run_polling()", "app.run_polling()"})
           /\ ~Contains(fixed_code, {"application.run_webhook(...)"})
        THEN IF Contains(webhook_code, {"if __name__ == '__main__': main()",
                                        "if __name__ == '__main__': run()"})
             THEN Replaced(webhook_code, "if __name__ == '__main__': main()",
                           <<Line("if __name__ == '__main__': main()"), webhook_setup(b)>>)
             ELSE IF Contains(webhook_code, {"def main():"})
             THEN setup_after_last_running(webhook_code, b)
             ELSE webhook_code
        ELSE webhook_code

\* the text update_bot_code writes to bot_<id>.py
update_webhook_code(b, new_code) ==
    polling_replaced(b, fix_python_telegram_bot_imports(new_code))

\* the text of bot_<id>.py
FileText(b) ==
    IF bot_file[b].by = "create"
    THEN create_webhook_code(b, bot_file[b].src)
    ELSE update_webhook_code(b, bot_file[b].src)

\* a failed spawn that leaves the fresh log empty
startup_error_dropped(b) == DictSet(bot_logs, b, << >>)

\* the log of b after a failed spawn: emptied, then the STARTUP ERROR entry
startup_error_logged(b) == DictSet(bot_logs, b, <<"STARTUP ERROR: spawn failed">>)

\* create_bot with a well-formed body; spawn_ok: Popen did not raise
create_bot(b, code, spawn_ok) ==
    /\ Len(procs) < MaxProcs
    /\ bot_file' = DictSet(bot_file, b, Written("create", code))
    /\ IF spawn_ok
       THEN /\ procs' = Spawned(b)
            /\ running_bots' = DictSet(running_bots, b, Len(procs) + 1)
            /\ bot_logs' = DictSet(bot_logs, b, << >>)
            /\ bot_errors' = DictSet(bot_errors, b, "")
            /\ response' = [Json("create_bot", b, TRUE, "") EXCEPT !.code = code]
            /\ last_ok' = [last_ok EXCEPT ![b] = [op |-> "create", pid |-> Len(procs) + 1]]
       ELSE /\ procs' = procs
            /\ running_bots' = running_bots
            /\ bot_logs' = startup_error_logged(b)
            /\ bot_errors' = DictSet(bot_errors, b, "spawn failed")
            /\ response' = [Json("create_bot", b, FALSE, "spawn failed") EXCEPT !.code = code]
            /\ last_ok' = last_ok
    /\ UNCHANGED <<hash_of, thr>>

\* a request body without botId, containerId, pythonCode or token: data[...]
\* raises KeyError before anything is done
create_bot_malformed(b) ==
    /\ response' = Unhandled("create_bot", b, "KeyError")
    /\ UNCHANGED <<hash_of, procs, running_bots, bot_logs, bot_errors, bot_file,
                   last_ok, thr>>

\* a clean-up that removes every bot file
bot_file_removed_all(b) == EmptyDict

\* the bot files after stop_bot removed bot_<id>.py, if it was there
bot_file_removed(b) == DictDel(bot_file, b)

stop_bot(b) ==
    /\ IF b \in DOMAIN running_bots
       THEN /\ procs' = Terminated(procs, running_bots[b])
            /\ running_bots' = DictDel(running_bots, b)
            /\ bot_file' = bot_file_removed(b)
            /\ response' = Json("stop_bot", b, TRUE, "")
            /\ last_ok' = [last_ok EXCEPT ![b] = [op |-> "stop", pid |-> running_bots[b]]]
       ELSE /\ response' = Json("stop_bot", b, FALSE, "Bot not found")
            /\ UNCHANGED <<procs, running_bots, bot_file, last_ok>>
    /\ UNCHANGED <<hash_of, bot_logs, bot_errors, thr>>

\* status with the poll() test inverted
status_running_inverted(b) == b \in DOMAIN running_bots /\ ~Polls(running_bots[b])

\* whether status answers running: true
status_running(b) == b \in DOMAIN running_bots /\ Polls(running_bots[b])

status(b) ==
    /\ response' = [Json("status", b, TRUE,
                         IF b \in DOMAIN running_bots /\ ~Polls(running_bots[b])
                         THEN (IF b \in DOMAIN bot_errors THEN bot_errors[b] ELSE "")
                         ELSE "")
                    EXCEPT !.running = status_running(b)]
    /\ UNCHANGED <<hash_of, procs, running_bots, bot_logs, bot_errors, bot_file,
                   last_ok, thr>>

\* an update that leaves the file as it was
update_written_rolled_back(b, code) == bot_file

\* the bot files after update_bot_code wrote the new code
update_written(b, code) == DictSet(bot_file, b, Written("update", code))

update_bot_code(b, code, spawn_ok) ==
    /\ Len(procs) < MaxProcs
    /\ bot_file' = update_written(b, code)
    /\ bot_logs' = DictSet(bot_logs, b, << >>)
    /\ LET stopped == IF b \in DOMAIN running_bots
                      THEN Terminated(procs, running_bots[b]) ELSE procs
       IN IF spawn_ok
          THEN /\ procs' = Append(stopped, NewProcess(b))
               /\ running_bots' = DictSet(running_bots, b, Len(procs) + 1)
               /\ bot_errors' = DictSet(bot_errors, b, "")
               /\ response' = [Json("update_bot_code", b, TRUE, "") EXCEPT !.code = code]
               /\ last_ok' = [last_ok EXCEPT ![b] = [op |-> "update", pid |-> Len(procs) + 1]]
          ELSE /\ procs' = stopped
               /\ running_bots' = DictDel(running_bots, b)
               /\ bot_errors' = DictSet(bot_errors, b, "spawn failed")
               /\ response' = [Json("update_bot_code", b, FALSE, "spawn failed")
                                  EXCEPT !.code = code]
               /\ last_ok' = last_ok
    /\ UNCHANGED <<hash_of, thr>>

\* what requests.post(..., timeout=10) to the bot's port can do
PostOutcomes(b) ==
    IF Listeners(Port(b)) = {} THEN {"refused"} ELSE {"completed", "timeout", "refused"}

\* the entries webhook_handler appends to the log of a bot that has one
webhook_entries(outcome) ==
    IF outcome = "completed"
    THEN <<"WEBHOOK: Received update from Telegram">>
    ELSE <<"WEBHOOK: Received update from Telegram", "WEBHOOK ERROR">>

\* webhook_handler reporting a failed forward as a failed request
webhook_response_surfaces_failure(b, outcome) ==
    [Json("webhook", b, outcome = "completed", IF outcome = "completed" THEN "" ELSE outcome)
     EXCEPT !.forwarded = (outcome = "completed"), !.outcome = outcome]

\* the response of webhook_handler
webhook_response(b, outcome) ==
    [Json("webhook", b, TRUE, IF outcome = "completed" THEN "" ELSE outcome)
     EXCEPT !.forwarded = (outcome = "completed"), !.outcome = outcome]

\* a forward that drops an update the process was sent before
Forwarded_once(ps, target, upd) ==
    IF target = 0 \/ (\E i \in 1..Len(ps[target].got) : ps[target].got[i] = upd) THEN ps
    ELSE [ps EXCEPT ![target].got = Append(@, upd)]

\* requests.post(bot_webhook_url, json=webhook_data): the process listening
\* on the port is sent the update
Forwarded(ps, target, upd) ==
    IF target = 0 THEN ps ELSE [ps EXCEPT ![target].got = Append(@, upd)]

\* the updates Telegram delivers
Updates == {"x1"}

\* the log of b has room, below the bound max, for the entries of a webhook
LogRoom(b, max) == b \in DOMAIN bot_logs => Len(bot_logs[b]) + 2 <= max

webhook_handler(b, outcome, target) ==
    /\ outcome \in PostOutcomes(b)
    /\ IF outcome = "refused" THEN target = 0 ELSE target \in Listeners(Port(b))
    /\ target # 0 => Len(procs[target].got) < MaxGot
    /\ \E upd \in Updates : procs' = Forwarded(procs, target, upd)
    /\ bot_logs' = IF b \in DOMAIN bot_logs
                   THEN [bot_logs EXCEPT ![b] = @ \o webhook_entries(outcome)]
                   ELSE bot_logs
    /\ response' = [webhook_response(b, outcome) EXCEPT !.to = target]
    /\ UNCHANGED <<hash_of, running_bots, bot_errors, bot_file, last_ok, thr>>

\* a bot process ends on its own
process_exits(p) ==
    /\ procs[p].st = "alive"
    /\ procs' = [procs EXCEPT ![p].st = "exited", ![p].got = << >>]
    /\ response' = NoResponse
    /\ UNCHANGED <<hash_of, running_bots, bot_logs, bot_errors, bot_file, last_ok, thr>>

\* a bot process writes a line to its stdout or stderr pipe
process_writes(p, stream) ==
    /\ procs[p].st = "alive"
    /\ procs[p].out[stream] < MaxOut
    /\ procs' = [procs EXCEPT ![p].out[stream] = @ + 1]
    /\ response' = NoResponse
    /\ UNCHANGED <<hash_of, running_bots, bot_logs, bot_errors, bot_file, last_ok, thr>>

\* a capture thread whose decode goes through: the line is appended
captured_decoded(p) ==
    IF procs[p].bot \in DOMAIN bot_logs
    THEN [bot_logs EXCEPT ![procs[p].bot] = Append(@, "line")]
    ELSE DictSet(bot_logs, procs[p].bot, <<"line">>)

\* bot_logs after the capture thread of p got its line: line.decode raises
\* on the str that a text=True pipe gives, before the append
captured(p) == bot_logs

\* the capture thread of process p, waiting in process.stdout.readline(): it
\* goes on when the process has written a line to stdout or has ended.  The
\* pipes are opened with text=True, so readline gives a str and line.decode
\* raises AttributeError; the handler of capture_bot_output prints it and the
\* thread ends, nothing appended.  The stderr pipe is read only after stdout
\* gave "", so never while the process runs: when the process has ended and
\* stdout is empty, a line left in stderr is read and ends the thread the
\* same way, and with both pipes empty the loop ends.
capture_bot_output(p) ==
    /\ procs[p].cap = "reading"
    /\ procs[p].out.stdout > 0 \/ procs[p].st # "alive"
    /\ procs' = IF procs[p].out.stdout > 0
                THEN [procs EXCEPT ![p].cap = "ended", ![p].out.stdout = @ - 1]
                ELSE IF procs[p].out.stderr > 0
                THEN [procs EXCEPT ![p].cap = "ended_on_stderr", ![p].out.stderr = @ - 1]
                ELSE [procs EXCEPT ![p].cap = "finished"]
    /\ bot_logs' = captured(p)
    /\ response' = NoResponse
    /\ UNCHANGED <<hash_of, running_bots, bot_errors, bot_file, last_ok, thr>>

\* get_bot_errors: the last error of the bot and the text of its bot file
\* ('' when there is no file); fullLogs is left out of the answer
get_bot_errors(b) ==
    /\ response' = [Json("get_bot_errors", b, TRUE,
                         IF b \in DOMAIN bot_errors THEN bot_errors[b] ELSE "")
                    EXCEPT !.code = IF b \in DOMAIN bot_file THEN bot_file[b].src ELSE ""]
    /\ UNCHANGED <<hash_of, procs, running_bots, bot_logs, bot_errors, bot_file,
                   last_ok, thr>>

\* log[-n:]
Last(log, n) == SubSeq(log, IF Len(log) > n THEN Len(log) - n + 1 ELSE 1, Len(log))

\* logs_data of the logs route
logs_data(b) ==
    LET bot_log_entries == IF b \in DOMAIN bot_logs THEN bot_logs[b] ELSE << >>
    IN  IF b \in DOMAIN running_bots
        THEN IF Polls(running_bots[b])
             THEN IF bot_log_entries = << >>
                  THEN <<"INFO - Bot is running with WEBHOOK mode", "INFO - Python process PID",
                         "INFO - Webhook URL configured", "INFO - Monitoring for errors and output...">>
                  ELSE Last(bot_log_entries, 50)
             ELSE Last(bot_log_entries, 50)
                  \o <<"ERROR - Bot process has stopped", "INFO - Exit code">>
                  \o (IF b \in DOMAIN bot_errors /\ bot_errors[b] # ""
                      THEN <<"LAST ERROR">> ELSE << >>)
        ELSE <<"WARNING - Bot not found in running processes">>
             \o (IF b \in DOMAIN bot_logs /\ bot_logs[b] # << >>
                 THEN Last(bot_logs[b], 20) ELSE << >>)

\* POST /logs, the handler logs() (the name is taken by the logs of the
\* Modal runtime's operators)
logs_handler(b) ==
    /\ response' = [Json("logs", b, TRUE, "") EXCEPT !.logs = logs_data(b)]
    /\ UNCHANGED <<hash_of, procs, running_bots, bot_logs, bot_errors, bot_file,
                   last_ok, thr>>

\* lifecycle requests and what the processes do on their own
LifecycleNext ==
    \/ \E b \in Bots, code \in Codes, ok \in BOOLEAN : create_bot(b, code, ok) /\ UNCHANGED modalVars
    \/ \E b \in Bots : create_bot_malformed(b) /\ UNCHANGED modalVars
    \/ \E b \in Bots : stop_bot(b) /\ UNCHANGED modalVars
    \/ \E b \in Bots : status(b) /\ UNCHANGED modalVars
    \/ \E b \in Bots, code \in Codes, ok \in BOOLEAN : update_bot_code(b, code, ok) /\ UNCHANGED modalVars
    \/ \E p \in Pids : process_exits(p) /\ UNCHANGED modalVars

Init == RunnerInit /\ thr = NoThreads /\ ModalInit

Next == LifecycleNext

Spec == Init /\ [][Next]_vars

\* the webhook route together with the requests that start and stop bots
\* (spawns that raise are left to LifecycleNext)
WebhookNext ==
    \/ \E b \in Bots : create_bot(b, "code1", TRUE) /\ UNCHANGED modalVars
    \/ \E b \in Bots : stop_bot(b) /\ UNCHANGED modalVars
    \/ \E b \in Bots : update_bot_code(b, "code2", TRUE) /\ UNCHANGED modalVars
    \/ \E b \in Bots, o \in {"completed", "timeout", "refused"}, p \in {0} \cup Pids :
           LogRoom(b, MaxLogLen) /\ webhook_handler(b, o, p) /\ UNCHANGED modalVars
    \/ \E p \in Pids : process_exits(p) /\ UNCHANGED modalVars

SpecWebhook == Init /\ [][WebhookNext]_vars

\* the bot processes, their output and their capture threads, with the
\* requests that start, stop and watch them
CaptureNext ==
    \/ \E b \in Bots : create_bot(b, "code1", TRUE) /\ UNCHANGED modalVars
    \/ \E b \in Bots : stop_bot(b) /\ UNCHANGED modalVars
    \/ \E b \in Bots : status(b) /\ UNCHANGED modalVars
    \/ \E p \in Pids, stream \in {"stdout", "stderr"} :
           process_writes(p, stream) /\ UNCHANGED modalVars
    \/ \E p \in Pids : capture_bot_output(p) /\ UNCHANGED modalVars
    \/ \E p \in Pids : process_exits(p) /\ UNCHANGED modalVars

\* the capture threads are scheduled; requests and the processes' own steps
\* come as they will
SpecCapture ==
    /\ Init
    /\ [][CaptureNext]_vars
    /\ WF_vars(\E p \in Pids : capture_bot_output(p) /\ UNCHANGED modalVars)

\* one bot started and restarted, with the output and the capture threads
\* of its processes
RerunNext ==
    \/ create_bot("b1", "code1", TRUE) /\ UNCHANGED modalVars
    \/ update_bot_code("b1", "code2", TRUE) /\ UNCHANGED modalVars
    \/ \E p \in Pids, stream \in {"stdout", "stderr"} :
           process_writes(p, stream) /\ UNCHANGED modalVars
    \/ \E p \in Pids : capture_bot_output(p) /\ UNCHANGED modalVars
    \/ \E p \in Pids : process_exits(p) /\ UNCHANGED modalVars

SpecRerun == Init /\ [][RerunNext]_vars

\* webhooks for a bot that is not running, over and over
RunnerLogNext ==
    \/ create_bot("b1", "code1", FALSE) /\ UNCHANGED modalVars
    \/ \E o \in {"completed", "timeout", "refused"}, p \in {0} \cup Pids :
           /\ LogRoom("b1", LogCapacity + MaxOverflow)
           /\ webhook_handler("b1", o, p)
           /\ UNCHANGED modalVars

SpecRunnerLog == Init /\ [][RunnerLogNext]_vars

\* one request that writes the bot file of b1, for every source text, and
\* the webhooks that follow
RewriteNext ==
    \/ /\ procs = << >>
       /\ \E src \in Sources : create_bot("b1", src, TRUE)
       /\ UNCHANGED modalVars
    \/ /\ procs = << >>
       /\ \E src \in Sources : update_bot_code("b1", src, TRUE)
       /\ UNCHANGED modalVars
    \/ \E o \in {"completed", "timeout", "refused"}, p \in {0} \cup Pids :
           /\ LogRoom("b1", MaxLogLen)
           /\ webhook_handler("b1", o, p)
           /\ UNCHANGED modalVars

RewriteInit == RunnerInitWith(WideSeeds) /\ thr = NoThreads /\ ModalInit

SpecRewrite == RewriteInit /\ [][RewriteNext]_vars

\* the logs route with the requests and events that change what it answers
LogsNext ==
    \/ \E ok \in BOOLEAN : create_bot("b1", "code1", ok) /\ UNCHANGED modalVars
    \/ stop_bot("b1") /\ UNCHANGED modalVars
    \/ \E o \in {"completed", "timeout", "refused"}, p \in {0} \cup Pids :
           /\ LogRoom("b1", MaxLogLen)
           /\ webhook_handler("b1", o, p)
           /\ UNCHANGED modalVars
    \/ \E p \in Pids : process_exits(p) /\ UNCHANGED modalVars
    \/ \E b \in Bots : logs_handler(b) /\ UNCHANGED modalVars

SpecLogs == Init /\ [][LogsNext]_vars

\* the requests that touch a bot's stored source, and the one that reads it
SourceNext ==
    \/ \E b \in Bots, ok \in BOOLEAN : create_bot(b, "code1", ok) /\ UNCHANGED modalVars
    \/ \E b \in Bots : stop_bot(b) /\ UNCHANGED modalVars
    \/ \E b \in Bots, ok \in BOOLEAN : update_bot_code(b, "code2", ok) /\ UNCHANGED modalVars
    \/ \E b \in Bots, o \in {"completed", "timeout", "refused"}, p \in {0} \cup Pids :
           LogRoom(b, MaxLogLen) /\ webhook_handler(b, o, p) /\ UNCHANGED modalVars
    \/ \E b \in Bots : get_bot_errors(b) /\ UNCHANGED modalVars

SpecSource == Init /\ [][SourceNext]_vars

(***************************************************************************)
(* Runner server with concurrent requests.  app.run serves each request in *)
(* its own thread and the handlers take no lock, so two handlers interleave*)
(* between any two accesses to the module's dictionaries.                  *)
(***************************************************************************)
Threads == {1, 2}

\* what a handler of the web service holds between its statements:
\* bot_handler and metadata of load_bot_instance
NoneHeld ==
    [handler |-> << >>,
     metadata |-> [bot_id |-> "none", user_id |-> "none", status |-> "none",
                   bot_token |-> "", file_size |-> 0]]

ThreadIdle ==
    [pc |-> "idle", op |-> "none", bot |-> "none", proc |-> 0, held |-> NoneHeld,
     result |-> NoResponse]

\* thread t ends its request with response r
Done(t, r) == [thr EXCEPT ![t].pc = "done", ![t].result = r]

Goto(t, pc) == [thr EXCEPT ![t].pc = pc]

\* the requests in flight that will still call Popen
ToSpawn ==
    {u \in Threads : thr[u].pc \in {"create_prepare", "create_spawn", "update_stop",
                                     "update_clear", "update_write", "update_spawn"}}

\* a request reaches the server and a thread starts its handler
request_arrives(t, op, b) ==
    /\ thr[t].pc \in {"idle", "done"}
    /\ op \in {"create_bot", "update_bot_code"}
          => Len(procs) + Cardinality(ToSpawn) < MaxProcs
    /\ thr' = [thr EXCEPT ![t] =
                 [ThreadIdle EXCEPT
                    !.pc = IF op = "stop_bot" THEN "stop_check"
                           ELSE IF op = "update_bot_code" THEN "update_stop"
                           ELSE "create_prepare",
                    !.op = op, !.bot = b]]
    /\ UNCHANGED <<hash_of, procs, running_bots, bot_logs, bot_errors, bot_file,
                   response, last_ok>>

\* stop_bot: if bot_id in running_bots
stop_check(t) ==
    /\ thr[t].pc = "stop_check"
    /\ thr' = IF thr[t].bot \in DOMAIN running_bots
              THEN Goto(t, "stop_get")
              ELSE Done(t, Json("stop_bot", thr[t].bot, FALSE, "Bot not found"))
    /\ UNCHANGED <<hash_of, procs, running_bots, bot_logs, bot_errors, bot_file,
                   response, last_ok>>

\* stop_bot: process = running_bots[bot_id]
stop_get(t) ==
    /\ thr[t].pc = "stop_get"
    /\ thr' = IF thr[t].bot \in DOMAIN running_bots
              THEN [thr EXCEPT ![t].pc = "stop_terminate",
                               ![t].proc = running_bots[thr[t].bot]]
              ELSE Done(t, Unhandled("stop_bot", thr[t].bot, "KeyError"))
    /\ UNCHANGED <<hash_of, procs, running_bots, bot_logs, bot_errors, bot_file,
                   response, last_ok>>

\* stop_bot: process.terminate()
stop_terminate(t) ==
    /\ thr[t].pc = "stop_terminate"
    /\ procs' = Terminated(procs, thr[t].proc)
    /\ thr' = Goto(t, "stop_del")
    /\ UNCHANGED <<hash_of, running_bots, bot_logs, bot_errors, bot_file,
                   response, last_ok>>

\* stop_bot: del running_bots[bot_id]
stop_del(t) ==
    /\ thr[t].pc = "stop_del"
    /\ IF thr[t].bot \in DOMAIN running_bots
       THEN /\ running_bots' = DictDel(running_bots, thr[t].bot)
            /\ thr' = Goto(t, "stop_cleanup")
       ELSE /\ running_bots' = running_bots
            /\ thr' = Done(t, Unhandled("stop_bot", thr[t].bot, "KeyError"))
    /\ UNCHANGED <<hash_of, procs, bot_logs, bot_errors, bot_file, response, last_ok>>

\* stop_bot: remove the bot file if it exists, answer success
stop_cleanup(t) ==
    /\ thr[t].pc = "stop_cleanup"
    /\ bot_file' = bot_file_removed(thr[t].bot)
    /\ thr' = Done(t, Json("stop_bot", thr[t].bot, TRUE, ""))
    /\ UNCHANGED <<hash_of, procs, running_bots, bot_logs, bot_errors,
                   response, last_ok>>

\* create_bot: write the bot file, reset the bot's log and last error
create_prepare(t) ==
    /\ thr[t].pc = "create_prepare"
    /\ bot_file' = DictSet(bot_file, thr[t].bot, Written("create", "code1"))
    /\ bot_logs' = DictSet(bot_logs, thr[t].bot, << >>)
    /\ bot_errors' = DictSet(bot_errors, thr[t].bot, "")
    /\ thr' = Goto(t, "create_spawn")
    /\ UNCHANGED <<hash_of, procs, running_bots, response, last_ok>>

\* create_bot: subprocess.Popen, and the except branch when it raises
create_spawn(t, spawn_ok) ==
    /\ thr[t].pc = "create_spawn"
    /\ IF spawn_ok
       THEN /\ procs' = Spawned(thr[t].bot)
            /\ thr' = [thr EXCEPT ![t].pc = "create_register", ![t].proc = Len(procs) + 1]
            /\ UNCHANGED <<bot_logs, bot_errors>>
       ELSE /\ procs' = procs
            /\ bot_errors' = DictSet(bot_errors, thr[t].bot, "spawn failed")
            /\ bot_logs' = [bot_logs EXCEPT ![thr[t].bot] =
                               Append(@, "STARTUP ERROR: spawn failed")]
            /\ thr' = Done(t, Json("create_bot", thr[t].bot, FALSE, "spawn failed"))
    /\ UNCHANGED <<hash_of, running_bots, bot_file, response, last_ok>>

\* create_bot: running_bots[bot_id] = process, start the capture thread, answer
create_register(t) ==
    /\ thr[t].pc = "create_register"
    /\ running_bots' = DictSet(running_bots, thr[t].bot, thr[t].proc)
    /\ thr' = Done(t, Json("create_bot", thr[t].bot, TRUE, ""))
    /\ UNCHANGED <<hash_of, procs, bot_logs, bot_errors, bot_file, response, last_ok>>

ConcInit == RunnerInit /\ thr = [t \in Threads |-> ThreadIdle] /\ ModalInit

ConcNext ==
    \/ \E t \in Threads, op \in {"create_bot", "stop_bot"}, b \in Bots :
           request_arrives(t, op, b) /\ UNCHANGED modalVars
    \/ \E t \in Threads : stop_check(t) /\ UNCHANGED modalVars
    \/ \E t \in Threads : stop_get(t) /\ UNCHANGED modalVars
    \/ \E t \in Threads : stop_terminate(t) /\ UNCHANGED modalVars
    \/ \E t \in Threads : stop_del(t) /\ UNCHANGED modalVars
    \/ \E t \in Threads : stop_cleanup(t) /\ UNCHANGED modalVars
    \/ \E t \in Threads : create_prepare(t) /\ UNCHANGED modalVars
    \/ \E t \in Threads, ok \in BOOLEAN : create_spawn(t, ok) /\ UNCHANGED modalVars
    \/ \E t \in Threads : create_register(t) /\ UNCHANGED modalVars

SpecConc == ConcInit /\ [][ConcNext]_vars


(***************************************************************************)
(* update_bot_code, statement by statement                                 *)
(***************************************************************************)
\* update_bot_code: stop the current bot if it is registered
update_stop(t) ==
    /\ thr[t].pc = "update_stop"
    /\ IF thr[t].bot \in DOMAIN running_bots
       THEN /\ procs' = Terminated(procs, running_bots[thr[t].bot])
            /\ running_bots' = DictDel(running_bots, thr[t].bot)
       ELSE UNCHANGED <<procs, running_bots>>
    /\ thr' = Goto(t, "update_clear")
    /\ UNCHANGED <<hash_of, bot_logs, bot_errors, bot_file, response, last_ok>>

\* update_bot_code going on without clearing the log
update_clear_skipped(t) ==
    /\ thr[t].pc = "update_clear"
    /\ thr' = Goto(t, "update_write")
    /\ UNCHANGED <<hash_of, procs, running_bots, bot_logs, bot_errors, bot_file,
                   response, last_ok>>

\* update_bot_code: clear previous logs and errors
update_clear(t) ==
    /\ thr[t].pc = "update_clear"
    /\ bot_logs' = DictSet(bot_logs, thr[t].bot, << >>)
    /\ bot_errors' = DictSet(bot_errors, thr[t].bot, "")
    /\ thr' = Goto(t, "update_write")
    /\ UNCHANGED <<hash_of, procs, running_bots, bot_file, response, last_ok>>

\* update_bot_code: rewrite the new code and write the bot file; write_ok:
\* open and write did not raise
update_write(t, write_ok) ==
    /\ thr[t].pc = "update_write"
    /\ IF write_ok
       THEN /\ bot_file' = DictSet(bot_file, thr[t].bot, Written("update", "code2"))
            /\ bot_errors' = bot_errors
            /\ thr' = Goto(t, "update_spawn")
       ELSE /\ bot_file' = bot_file
            /\ bot_errors' = DictSet(bot_errors, thr[t].bot, "write failed")
            /\ thr' = Done(t, Json("update_bot_code", thr[t].bot, FALSE, "write failed"))
    /\ UNCHANGED <<hash_of, procs, running_bots, bot_logs, response, last_ok>>

\* update_bot_code: subprocess.Popen, register the process, answer; and the
\* except branch when Popen raises
update_spawn(t, spawn_ok) ==
    /\ thr[t].pc = "update_spawn"
    /\ IF spawn_ok
       THEN /\ procs' = Spawned(thr[t].bot)
            /\ running_bots' = DictSet(running_bots, thr[t].bot, Len(procs) + 1)
            /\ bot_errors' = bot_errors
            /\ thr' = Done(t, Json("update_bot_code", thr[t].bot, TRUE, ""))
       ELSE /\ procs' = procs
            /\ running_bots' = running_bots
            /\ bot_errors' = DictSet(bot_errors, thr[t].bot, "spawn failed")
            /\ thr' = Done(t, Json("update_bot_code", thr[t].bot, FALSE, "spawn failed"))
    /\ UNCHANGED <<hash_of, bot_logs, bot_file, response, last_ok>>

\* one request at a time, create_bot and update_bot_code taken step by step
UpdateNext ==
    \/ \E op \in {"create_bot", "update_bot_code"}, b \in Bots :
           request_arrives(1, op, b) /\ UNCHANGED modalVars
    \/ create_prepare(1) /\ UNCHANGED modalVars
    \/ \E ok \in BOOLEAN : create_spawn(1, ok) /\ UNCHANGED modalVars
    \/ create_register(1) /\ UNCHANGED modalVars
    \/ update_stop(1) /\ UNCHANGED modalVars
    \/ update_clear(1) /\ UNCHANGED modalVars
    \/ \E ok \in BOOLEAN : update_write(1, ok) /\ UNCHANGED modalVars
    \/ \E ok \in BOOLEAN : update_spawn(1, ok) /\ UNCHANGED modalVars

SpecUpdate == ConcInit /\ [][UpdateNext]_vars

(***************************************************************************)
(* Modal runtime: storing and loading bot files                            *)
(***************************************************************************)
Metadata(b, u, code, token) ==
    [bot_id |-> b, user_id |-> u, status |-> "stored", bot_token |-> token,
     file_size |-> Len(code)]

\* the view of container c after main.py is written (lines 297-298)
MainWritten(c, b, u, code) == WriteFile(mnt[c], MainPy(u, b), WriteText(code))

\* a read-back test that accepts whatever was written
Verified_anything(view, b, u, code) == MainPy(u, b) \in DOMAIN view

\* the read-back test of lines 301-305
Verified(view, b, u, code) == ReadText(view[MainPy(u, b)]) = code

\* the view of container c after metadata.json and logs/bot.log are written
AllWritten(c, b, u, code, token) ==
    WriteFile(
        WriteFile(MainWritten(c, b, u, code), MetaJson(u, b), Metadata(b, u, code, token)),
        BotLog(u, b), <<"stored successfully">>)

StoreOkLog ==
    <<Info("Starting optimized storage"), Info("Directory structure created"),
      Info("main.py written and verified"), Info("Metadata written successfully"),
      Info("Initial log file created"), Info("Volume committed successfully")>>

StoreFailLog ==
    <<Info("Starting optimized storage"), Info("Directory structure created"),
      Err("Storage error: File content verification failed")>>

\* optimized_store_bot_files(bot_id, user_id, bot_code, bot_token, bot_name)
\* running in container c
optimized_store_bot_files(c, b, u, code, token) ==
    /\ n_calls.stores < MaxStores
    /\ n_calls' = [n_calls EXCEPT !.stores = @ + 1]
    /\ IF Verified(MainWritten(c, b, u, code), b, u, code)
       THEN /\ mnt' = [mnt EXCEPT ![c] = AllWritten(c, b, u, code, token)]
            /\ vol' = Committed(AllWritten(c, b, u, code, token),
                                 dirty[c] \cup {MainPy(u, b), MetaJson(u, b), BotLog(u, b)})
            /\ dirty' = [dirty EXCEPT ![c] = {}]
            /\ m_bot_logs' = [m_bot_logs EXCEPT ![c] = add_bot_logs(@, b, StoreOkLog)]
            /\ m_response' = [NoMResponse EXCEPT !.op = "store", !.ctx = c, !.user = u,
                                !.bot = b, !.success = TRUE, !.invoked = TRUE,
                                !.body = Body(Given(u), Given(code), Given(token))]
            /\ stored_code' = [stored_code EXCEPT ![<<u, b>>] =
                                   [ok |-> TRUE, code |-> code, prev |-> @.code]]
       ELSE /\ mnt' = [mnt EXCEPT ![c] = MainWritten(c, b, u, code)]
            /\ vol' = vol
            /\ dirty' = [dirty EXCEPT ![c] = @ \cup {MainPy(u, b)}]
            /\ m_bot_logs' = [m_bot_logs EXCEPT ![c] = add_bot_logs(@, b, StoreFailLog)]
            /\ m_response' = [NoMResponse EXCEPT !.op = "store", !.ctx = c, !.user = u,
                                !.bot = b, !.success = FALSE, !.invoked = TRUE,
                                !.error = "File content verification failed",
                                !.body = Body(Given(u), Given(code), Given(token))]
            /\ stored_code' = [stored_code EXCEPT ![<<u, b>>] =
                                   [ok |-> FALSE, code |-> << >>, prev |-> << >>]]
    /\ UNCHANGED <<bot_instances, environ>>

\* truth value of body.get(...): None and the empty string are false
\* (empty: the empty string of the field's type, "" or the empty text)
Truthy(f, empty) == f.given /\ f.val # empty

\* the test with the token left out
AllGiven_without_token(user_id, bot_code, bot_token) ==
    Truthy(user_id, "") /\ Truthy(bot_code, << >>)

\* all([user_id, bot_code, bot_token])
AllGiven(user_id, bot_code, bot_token) ==
    Truthy(user_id, "") /\ Truthy(bot_code, << >>) /\ Truthy(bot_token, "")

\* POST /store-bot/{bot_id}; the remote call runs in container c
optimized_store_bot_endpoint(c, b, user_id, bot_code, bot_token) ==
    IF AllGiven(user_id, bot_code, bot_token)
    THEN optimized_store_bot_files(c, b, user_id.val, bot_code.val, bot_token.val)
    ELSE /\ m_response' = [NoMResponse EXCEPT !.op = "store", !.ctx = "web", !.bot = b,
                             !.success = FALSE, !.error = "400: Missing required fields",
                             !.body = Body(user_id, bot_code, bot_token)]
         /\ UNCHANGED <<vol, mnt, dirty, m_bot_logs, bot_instances, environ, stored_code, n_calls>>

\* a reload that leaves the container's view as it is
Reloaded_stale(c) == mnt[c]

\* volume.reload() in container c: the view becomes the committed state
Reloaded(c) == vol

\* a load that succeeds only with both files
load_success_needs_metadata(has_main, has_meta) == has_main /\ has_meta

\* success = len(files) > 0 and "main.py" in files
load_success(has_main, has_meta) == has_main

\* optimized_load_bot_files(bot_id, user_id) in container c.  fails: what
\* raises, volume.reload() or the read of main.py or of metadata.json
optimized_load_bot_files(c, b, u, fails) ==
    /\ n_calls.reads < MaxReads
    \* an input is only drawn for a read that is made
    /\ fails = "main" => MainPy(u, b) \in DOMAIN Reloaded(c)
    /\ fails = "meta" => MetaJson(u, b) \in DOMAIN Reloaded(c)
    /\ n_calls' = [n_calls EXCEPT !.reads = @ + 1]
    /\ vol' = vol
    /\ IF fails = "reload"
       THEN /\ UNCHANGED <<mnt, dirty>>
            /\ m_bot_logs' = [m_bot_logs EXCEPT ![c] =
                   add_bot_logs(@, b, <<Info("Starting optimized load"), Err("Load error")>>)]
            /\ m_response' =
                   [NoMResponse EXCEPT !.op = "load", !.ctx = c, !.user = u, !.bot = b,
                       !.invoked = TRUE, !.error = "reload",
                       !.met = Met(FALSE, u, fails, "none", "none")]
       ELSE /\ mnt' = [mnt EXCEPT ![c] = Reloaded(c)]
            /\ dirty' = [dirty EXCEPT ![c] = {}]
            /\ m_bot_logs' = [m_bot_logs EXCEPT ![c] =
                   add_bot_logs(@, b, <<Info("Starting optimized load"),
                                        Info("Volume reloaded successfully")>>)]
            /\ LET view == Reloaded(c)
                   has_main == MainPy(u, b) \in DOMAIN view /\ fails # "main"
                   has_meta == MetaJson(u, b) \in DOMAIN view /\ fails # "meta"
               IN
               m_response' =
                   IF ~DirExists(view, u, b)
                   THEN [NoMResponse EXCEPT !.op = "load", !.ctx = c, !.user = u, !.bot = b,
                           !.invoked = TRUE,
                           !.error = "Bot directory not found after volume reload",
                           !.met = Met(TRUE, u, fails, "none", "none")]
                   ELSE [NoMResponse EXCEPT !.op = "load", !.ctx = c, !.user = u, !.bot = b,
                           !.invoked = TRUE,
                           !.has_main = has_main,
                           !.main = IF has_main THEN ReadText(view[MainPy(u, b)]) ELSE << >>,
                           !.has_meta = has_meta,
                           !.status = IF has_meta THEN view[MetaJson(u, b)].status ELSE "none",
                           !.success = load_success(has_main, has_meta),
                           !.met = Met(TRUE, u, fails, "none", "none")]
    /\ UNCHANGED <<bot_instances, environ, stored_code>>

\* request bodies: the complete ones, and a complete one with one field
\* left out or empty, and the empty body
CompleteBodies == {Body(Given(u), Given(k), Given("tok")) : u \in Users, k \in MCodes}
IncompleteBodies ==
    {Body(u, Given(GoodCode), Given("tok")) : u \in {Absent(""), Given("")}}
    \cup {Body(Given("u1"), k, Given("tok")) : k \in {Absent(<< >>), Given(<< >>)}}
    \cup {Body(Given("u1"), Given(GoodCode), t) : t \in {Absent(""), Given("")}}
    \cup {Body(Absent(""), Absent(<< >>), Absent(""))}
StoreBodies == CompleteBodies \cup IncompleteBodies

StoreNext ==
    \/ \E c \in StoreCtx, b \in MBots, body \in StoreBodies :
           optimized_store_bot_endpoint(c, b, body.user_id, body.bot_code, body.bot_token)
           /\ UNCHANGED runnerVars
    \/ \E c \in LoadCtx, b \in MBots, u \in Users :
           optimized_load_bot_files(c, b, u, "none") /\ UNCHANGED runnerVars

\* the Modal runtime runs without the runner server
MInit == RunnerInit /\ hash_of = [b \in Bots |-> IF b = "b1" THEN 7 ELSE 8] /\ thr = NoThreads /\ ModalInit

SpecStore == MInit /\ [][StoreNext]_vars

(***************************************************************************)
(* Modal runtime: webhooks of the web service                              *)
(***************************************************************************)
\* a lookup of "application" alone
DefinesHandler_application_only(code) == \E i \in 1..Len(code) : code[i] = "application"

\* exec(bot_code, bot_namespace) leaves "application" or "app" in the namespace
DefinesHandler(code) == \E i \in 1..Len(code) : code[i] \in {"application", "app"}

\* where load_bot_instance raises, if the files are there
LoadRaises == {"none", "reload", "exec", "initialize"}

\* load_bot_instance(bot_id, user_id) in the web container: the instances and
\* the log it leaves, from the view, instances and log it finds
load_bot_instance(b, u, view, instances, logs, raises) ==
    LET started == add_bot_log(logs, b, Info("Loading bot instance"))
        failed == [instances |-> instances,
                   logs |-> add_bot_log(started, b, Err("Error loading bot"))]
        read == add_bot_log(started, b, Info("Bot code loaded from volume"))
    IN  IF raises = "reload" THEN failed
        ELSE IF MetaJson(u, b) \notin DOMAIN view \/ MainPy(u, b) \notin DOMAIN view
        THEN failed
        ELSE IF raises = "exec"
        THEN [instances |-> instances,
              logs |-> add_bot_log(read, b, Err("Error loading bot"))]
        ELSE IF ~DefinesHandler(ReadText(view[MainPy(u, b)]))
        THEN [instances |-> instances,
              logs |-> add_bot_log(read, b, Err("No application instance found in bot code"))]
        ELSE IF raises = "initialize"
        THEN [instances |-> instances,
              logs |-> add_bot_log(read, b, Err("Error loading bot"))]
        ELSE [instances |-> DictSet(instances, b,
                                [handler |-> ReadText(view[MainPy(u, b)]),
                                 metadata |-> view[MetaJson(u, b)]]),
              logs |-> add_bot_log(read, b, Info("Bot loaded and initialized successfully"))]

\* os.environ after load_bot_instance(bot_id, user_id): BOT_TOKEN is set once
\* both files are read, before the code is executed
load_environ(b, u, view, raises) ==
    IF \/ raises = "reload"
       \/ MetaJson(u, b) \notin DOMAIN view \/ MainPy(u, b) \notin DOMAIN view
    THEN environ
    ELSE DictSet(environ, "BOT_TOKEN", view[MetaJson(u, b)].bot_token)

\* the answers of handle_webhook
webhook_ok(b) ==
    [NoMResponse EXCEPT !.op = "webhook", !.ctx = "web", !.bot = b, !.invoked = TRUE,
                        !.http = 200, !.success = TRUE]
webhook_error(b) ==
    [NoMResponse EXCEPT !.op = "webhook", !.ctx = "web", !.bot = b, !.invoked = TRUE,
                        !.http = 500, !.success = FALSE, !.error = "HTTPException"]
\* the Bot not found answer turned into an HTTP error
bot_not_found_raised(b) ==
    [NoMResponse EXCEPT !.op = "webhook", !.ctx = "web", !.bot = b,
                        !.http = 500, !.success = FALSE, !.error = "Bot not found"]
bot_not_found(b) ==
    [NoMResponse EXCEPT !.op = "webhook", !.ctx = "web", !.bot = b,
                        !.http = 200, !.success = FALSE, !.error = "Bot not found"]

\* the tenants under which the owner scan finds a directory of the bot
user_dirs(view, b) == {u \in Users : DirExists(view, u, b)}

\* what Update.de_json gives and what process_update does
Parsed == {"update", "none", "raises"}
Processed == {"ok", "raises"}

\* POST /webhook/{bot_id} with a JSON body. reload_ok: the volume.reload() of
\* the owner scan did not raise; u: the first tenant os.listdir gives that has
\* a directory of the bot ("none" when there is none)
handle_webhook(b, reload_ok, u, raises, parsed, processed) ==
    /\ n_calls.hooks < MaxHooks
    \* an input is only drawn for a call that is made
    /\ b \notin DOMAIN bot_instances \/ reload_ok
    /\ parsed = "update" \/ processed = "ok"
    /\ n_calls' = [n_calls EXCEPT !.hooks = @ + 1]
    /\ LET received == add_bot_log(m_bot_logs["web"], b, Info("Received webhook"))
           scans == b \notin DOMAIN bot_instances
           view == IF scans /\ reload_ok THEN Reloaded("web") ELSE mnt["web"]
           found == IF scans /\ reload_ok THEN user_dirs(view, b) ELSE {}
           loaded ==
               IF scans /\ ~reload_ok
               THEN [instances |-> bot_instances,
                     logs |-> add_bot_log(received, b, Err("Error finding bot"))]
               ELSE IF found # {}
               THEN load_bot_instance(b, u, view, bot_instances, received, raises)
               ELSE [instances |-> bot_instances, logs |-> received]
       IN
       /\ IF found = {} THEN u = "none" ELSE u \in found
       /\ found # {} \/ raises = "none"
       /\ b \in DOMAIN loaded.instances \/ parsed = "update"
       /\ mnt' = [mnt EXCEPT !["web"] = view]
       /\ bot_instances' = loaded.instances
       /\ environ' = IF scans /\ reload_ok /\ found # {}
                     THEN load_environ(b, u, view, raises) ELSE environ
       /\ IF b \in DOMAIN loaded.instances
          THEN IF parsed = "raises" \/ (parsed = "update" /\ processed = "raises")
               THEN /\ m_bot_logs' = [m_bot_logs EXCEPT !["web"] =
                           add_bot_log(loaded.logs, b, Err("Webhook error"))]
                    /\ m_response' = [webhook_error(b) EXCEPT !.met =
                                          Met(reload_ok, u, raises, parsed, processed)]
               ELSE /\ m_bot_logs' = [m_bot_logs EXCEPT !["web"] =
                           IF parsed = "update"
                           THEN add_bot_log(loaded.logs, b, Info("Webhook processed successfully"))
                           ELSE loaded.logs]
                    /\ m_response' = [webhook_ok(b) EXCEPT !.met =
                                          Met(reload_ok, u, raises, parsed, processed)]
          ELSE /\ m_bot_logs' = [m_bot_logs EXCEPT !["web"] =
                      add_bot_log(loaded.logs, b, Err("Bot not found or not loaded"))]
               /\ m_response' = [bot_not_found(b) EXCEPT !.met =
                                     Met(reload_ok, u, raises, parsed, processed)]
    /\ UNCHANGED <<vol, dirty, stored_code>>

\* source texts with and without a handler
HookCodes == {GoodCode, PlainCode}

HookNext ==
    \/ \E b \in MBots, u \in Users, code \in HookCodes :
           /\ n_calls.stores < MaxHookStores
           /\ optimized_store_bot_files("s1", b, u, code, "tok")
           /\ UNCHANGED runnerVars
    \/ \E b \in Bots, reload_ok \in BOOLEAN, u \in Users \cup {"none"},
          raises \in LoadRaises, parsed \in Parsed, processed \in Processed :
           handle_webhook(b, reload_ok, u, raises, parsed, processed) /\ UNCHANGED runnerVars

SpecHook == MInit /\ [][HookNext]_vars

\* the token each bot is stored with
BotToken(b) == IF b = "b1" THEN "tok1" ELSE "tok2"

\* two bots of one tenant, each with a token of its own, and their webhooks
TokensNext ==
    \/ \E b \in Bots :
           /\ n_calls.stores < MaxHookStores
           /\ optimized_store_bot_files("s1", b, "u1", GoodCode, BotToken(b))
           /\ UNCHANGED runnerVars
    \/ \E b \in Bots, u \in {"u1", "none"}, raises \in LoadRaises, processed \in Processed :
           handle_webhook(b, TRUE, u, raises, "update", processed) /\ UNCHANGED runnerVars

SpecTokens == MInit /\ [][TokensNext]_vars

\* one bot of one tenant stored again and again with webhooks in between
RestoreNext ==
    \/ \E code \in {GoodCode, NewCode} :
           /\ n_calls.stores < MaxHookStores
           /\ optimized_store_bot_files("s1", "b1", "u1", code, "tok")
           /\ UNCHANGED runnerVars
    \/ \E reload_ok \in BOOLEAN, u \in {"u1", "none"}, raises \in LoadRaises,
          processed \in Processed :
           handle_webhook("b1", reload_ok, u, raises, "update", processed)
           /\ UNCHANGED runnerVars

SpecRestore == MInit /\ [][RestoreNext]_vars

(***************************************************************************)
(* Modal runtime: the log files on the volume                              *)
(***************************************************************************)
\* where append_bot_log_to_volume raises
AppendFails == {"none", "reload", "write", "commit"}

\* the lines of logs/bot.log in a view
LogLines(view, u, b) == IF BotLog(u, b) \in DOMAIN view THEN view[BotLog(u, b)] ELSE << >>

\* append_bot_log_to_volume(bot_id, user_id, message, level) in container c
append_bot_log_to_volume(c, b, u, message, fails) ==
    /\ n_calls.written < MaxWritten
    /\ n_calls' = [n_calls EXCEPT !.written = @ + 1]
    /\ LET view == IF fails = "reload" THEN mnt[c] ELSE Reloaded(c)
           written == IF fails \in {"reload", "write"} THEN view
                      ELSE WriteFile(view, BotLog(u, b), Append(LogLines(view, u, b), message))
           unsaved == IF fails = "reload" THEN dirty[c]
                      ELSE IF fails = "write" THEN {}
                      ELSE {BotLog(u, b)}
       IN  /\ mnt' = [mnt EXCEPT ![c] = written]
           /\ IF fails = "none"
              THEN /\ vol' = Committed(written, unsaved)
                   /\ dirty' = [dirty EXCEPT ![c] = {}]
                   /\ m_bot_logs' = [m_bot_logs EXCEPT ![c] = add_bot_log(@, b, Info(message))]
                   /\ m_response' = [NoMResponse EXCEPT !.op = "append", !.ctx = c,
                                        !.user = u, !.bot = b, !.invoked = TRUE,
                                        !.success = TRUE]
              ELSE /\ vol' = vol
                   /\ dirty' = [dirty EXCEPT ![c] = unsaved]
                   /\ m_bot_logs' = m_bot_logs
                   /\ m_response' = [NoMResponse EXCEPT !.op = "append", !.ctx = c,
                                        !.user = u, !.bot = b, !.invoked = TRUE,
                                        !.success = FALSE, !.error = fails]
    /\ UNCHANGED <<bot_instances, environ, stored_code>>

\* the messages of the in-memory log of a bot in container c
RECURSIVE Messages(_)
Messages(log) == IF log = << >> THEN << >> ELSE <<Head(log).msg>> \o Messages(Tail(log))

MemoryLines(c, b) ==
    IF b \in DOMAIN m_bot_logs[c] THEN Messages(m_bot_logs[c][b]) ELSE << >>

\* the answer of get_bot_logs_from_volume(bot_id, user_id) in container c
\* whose view is `view`
LogsFound(c, view, b, u) ==
    LET logs == MemoryLines(c, b) \o LogLines(view, u, b)
    IN  [NoMResponse EXCEPT !.op = "getlogs", !.ctx = c, !.user = u, !.bot = b,
                            !.invoked = TRUE, !.success = TRUE,
                            !.logs = IF logs = << >>
                                     THEN <<"No logs available", "Bot may not have been started yet">>
                                     ELSE logs]

\* get_bot_logs_from_volume(bot_id, user_id) in container c: the view and
\* the unsaved paths it leaves in c, and its answer
get_bot_logs_from_volume(c, b, u, reload_ok) ==
    IF reload_ok
    THEN [view |-> Reloaded(c), unsaved |-> {}, response |-> LogsFound(c, Reloaded(c), b, u)]
    ELSE [view |-> mnt[c], unsaved |-> dirty[c],
          response |-> [NoMResponse EXCEPT !.op = "getlogs", !.ctx = c, !.user = u,
                                           !.bot = b, !.invoked = TRUE,
                                           !.success = FALSE, !.error = "reload"]]

\* GET /logs/{bot_id}?user_id=...: user_id is Absent("") or Given(tenant);
\* scan_ok: the reload of the owner scan did not raise; u: the tenant the
\* request ends with ("none" when there is none); reload_ok: the reload of
\* get_bot_logs_from_volume did not raise
get_bot_logs_endpoint(b, user_id, scan_ok, u, reload_ok) ==
    /\ n_calls.gets < MaxGets
    \* an input is only drawn for a call that is made
    /\ Truthy(user_id, "") => scan_ok
    /\ n_calls' = [n_calls EXCEPT !.gets = @ + 1]
    /\ LET scans == ~Truthy(user_id, "")
           web == IF scans /\ scan_ok THEN Reloaded("web") ELSE mnt["web"]
           found == IF ~scans THEN {user_id.val}
                    ELSE IF scan_ok THEN user_dirs(web, b) ELSE {}
           got == get_bot_logs_from_volume("g1", b, u, reload_ok)
           query == Body(user_id, Absent(<< >>), Absent(""))
       IN
       /\ IF found = {} THEN u = "none" /\ reload_ok ELSE u \in found
       /\ IF found = {}
          THEN /\ mnt' = [mnt EXCEPT !["web"] = web]
               /\ dirty' = dirty
               /\ m_response' = [NoMResponse EXCEPT !.op = "getlogs", !.ctx = "web", !.bot = b,
                                    !.success = FALSE, !.body = query,
                                    !.error = IF scan_ok THEN "Bot not found" ELSE "reload"]
          ELSE /\ mnt' = [mnt EXCEPT !["web"] = web, !["g1"] = got.view]
               /\ dirty' = [dirty EXCEPT !["g1"] = got.unsaved]
               /\ m_response' = [got.response EXCEPT !.body = query]
    /\ UNCHANGED <<vol, m_bot_logs, bot_instances, environ, stored_code>>

\* the calls made so far
VolumeCalls ==
    n_calls.stores + n_calls.written + n_calls.reads + n_calls.gets + n_calls.hooks

\* every operation that writes to or reads from the volume
VolumeNext ==
    \/ \E u \in Users :
           /\ VolumeCalls < MaxVolumeOps
           /\ n_calls.stores < MaxHookStores
           /\ optimized_store_bot_files("s1", "b1", u, GoodCode, "tok")
           /\ UNCHANGED runnerVars
    \/ \E u \in Users, fails \in AppendFails :
           /\ VolumeCalls < MaxVolumeOps
           /\ append_bot_log_to_volume("a1", "b1", u, "m1", fails)
           /\ UNCHANGED runnerVars
    \/ \E u \in Users :
           /\ VolumeCalls < MaxVolumeOps
           /\ optimized_load_bot_files("l1", "b1", u, "none")
           /\ UNCHANGED runnerVars
    \/ \E user_id \in {Absent(""), Given("u1")}, scan_ok \in BOOLEAN,
          u \in Users \cup {"none"}, reload_ok \in BOOLEAN :
           /\ VolumeCalls < MaxVolumeOps
           /\ get_bot_logs_endpoint("b1", user_id, scan_ok, u, reload_ok)
           /\ UNCHANGED runnerVars
    \/ \E reload_ok \in BOOLEAN, u \in Users \cup {"none"} :
           /\ VolumeCalls < MaxVolumeOps
           /\ handle_webhook("b1", reload_ok, u, "none", "update", "ok")
           /\ UNCHANGED runnerVars

SpecVolume == MInit /\ [][VolumeNext]_vars

\* the log file of one bot of one tenant: stores, appends of two messages
\* and reads
AppendNext ==
    \/ /\ VolumeCalls < MaxVolumeOps
       /\ n_calls.stores < MaxHookStores
       /\ optimized_store_bot_files("s1", "b1", "u1", GoodCode, "tok")
       /\ UNCHANGED runnerVars
    \/ \E message \in {"m1", "m2"}, fails \in AppendFails :
           /\ VolumeCalls < MaxVolumeOps
           /\ append_bot_log_to_volume("a1", "b1", "u1", message, fails)
           /\ UNCHANGED runnerVars
    \/ \E reload_ok \in BOOLEAN :
           /\ VolumeCalls < MaxVolumeOps
           /\ get_bot_logs_endpoint("b1", Given("u1"), TRUE, "u1", reload_ok)
           /\ UNCHANGED runnerVars

SpecAppend == MInit /\ [][AppendNext]_vars

\* loads of one bot, with what can raise in them, after stores and appends
\* that leave its directory with and without each file
LoadNext ==
    \/ \E u \in Users, code \in {GoodCode, CrlfCode} :
           /\ n_calls.stores < MaxHookStores
           /\ optimized_store_bot_files("s1", "b1", u, code, "tok")
           /\ UNCHANGED runnerVars
    \/ append_bot_log_to_volume("a1", "b1", "u1", "m1", "none") /\ UNCHANGED runnerVars
    \/ \E u \in Users, fails \in {"none", "reload", "main", "meta"} :
           optimized_load_bot_files("l1", "b1", u, fails) /\ UNCHANGED runnerVars

SpecLoad == MInit /\ [][LoadNext]_vars

(***************************************************************************)
(* Webhook requests with their suspension points: the runner's             *)
(* requests.post(..., timeout=10) and the web service's                    *)
(* await bot_handler.process_update(update)                                *)
(***************************************************************************)
\* webhook_handler up to the POST: the receipt is logged
webhook_received(t, b) ==
    /\ thr[t].pc \in {"idle", "done"}
    /\ b \in DOMAIN bot_logs => Len(bot_logs[b]) + 2 <= MaxLogLen
    /\ bot_logs' = IF b \in DOMAIN bot_logs
                   THEN [bot_logs EXCEPT ![b] = Append(@, Head(webhook_entries("completed")))]
                   ELSE bot_logs
    /\ thr' = [thr EXCEPT ![t] = [ThreadIdle EXCEPT !.pc = "webhook_post",
                                                    !.op = "webhook", !.bot = b]]
    /\ UNCHANGED <<hash_of, procs, running_bots, bot_errors, bot_file, response, last_ok>>

\* requests.post returns or raises, after 10 seconds at the latest, and
\* webhook_handler answers
webhook_post(t, outcome, target) ==
    /\ thr[t].pc = "webhook_post"
    /\ outcome \in PostOutcomes(thr[t].bot)
    /\ IF outcome = "refused" THEN target = 0 ELSE target \in Listeners(Port(thr[t].bot))
    /\ target # 0 => Len(procs[target].got) < MaxGot
    /\ \E upd \in Updates : procs' = Forwarded(procs, target, upd)
    /\ bot_logs' = IF thr[t].bot \in DOMAIN bot_logs
                   THEN [bot_logs EXCEPT ![thr[t].bot] = @ \o Tail(webhook_entries(outcome))]
                   ELSE bot_logs
    /\ thr' = Done(t, [webhook_response(thr[t].bot, outcome) EXCEPT !.to = target])
    /\ UNCHANGED <<hash_of, running_bots, bot_errors, bot_file, response, last_ok>>

\* handle_webhook up to await bot_handler.process_update(update), for a body
\* Update.de_json accepts; reload_ok, u, raises as in handle_webhook
hook_begin(t, b, reload_ok, u, raises) ==
    /\ thr[t].pc \in {"idle", "done"}
    /\ n_calls.hooks < MaxHooks
    /\ b \notin DOMAIN bot_instances \/ reload_ok
    /\ n_calls' = [n_calls EXCEPT !.hooks = @ + 1]
    /\ LET received == add_bot_log(m_bot_logs["web"], b, Info("Received webhook"))
           scans == b \notin DOMAIN bot_instances
           view == IF scans /\ reload_ok THEN Reloaded("web") ELSE mnt["web"]
           found == IF scans /\ reload_ok THEN user_dirs(view, b) ELSE {}
           loaded ==
               IF scans /\ ~reload_ok
               THEN [instances |-> bot_instances,
                     logs |-> add_bot_log(received, b, Err("Error finding bot"))]
               ELSE IF found # {}
               THEN load_bot_instance(b, u, view, bot_instances, received, raises)
               ELSE [instances |-> bot_instances, logs |-> received]
       IN
       /\ IF found = {} THEN u = "none" ELSE u \in found
       /\ found # {} \/ raises = "none"
       /\ mnt' = [mnt EXCEPT !["web"] = view]
       /\ bot_instances' = loaded.instances
       /\ environ' = IF scans /\ reload_ok /\ found # {}
                     THEN load_environ(b, u, view, raises) ELSE environ
       /\ IF b \in DOMAIN loaded.instances
          THEN /\ m_bot_logs' = [m_bot_logs EXCEPT !["web"] = loaded.logs]
               /\ m_response' = m_response
               /\ thr' = [thr EXCEPT ![t] = [ThreadIdle EXCEPT !.pc = "process_update",
                                                !.op = "handle_webhook", !.bot = b]]
          ELSE /\ m_bot_logs' = [m_bot_logs EXCEPT !["web"] =
                      add_bot_log(loaded.logs, b, Err("Bot not found or not loaded"))]
               /\ m_response' = [bot_not_found(b) EXCEPT !.met =
                                     Met(reload_ok, u, raises, "update", "ok")]
               /\ thr' = [thr EXCEPT ![t] = [ThreadIdle EXCEPT !.pc = "done",
                                                !.op = "handle_webhook", !.bot = b]]
    /\ UNCHANGED <<vol, dirty, stored_code>>
    /\ UNCHANGED <<hash_of, procs, running_bots, bot_logs, bot_errors, bot_file,
                   response, last_ok>>

\* bot_handler.process_update(update) returns or raises, and handle_webhook
\* answers
process_update_returns(t, processed) ==
    /\ thr[t].pc = "process_update"
    /\ IF processed = "raises"
       THEN /\ m_bot_logs' = [m_bot_logs EXCEPT !["web"] =
                   add_bot_log(@, thr[t].bot, Err("Webhook error"))]
            /\ m_response' = webhook_error(thr[t].bot)
       ELSE /\ m_bot_logs' = [m_bot_logs EXCEPT !["web"] =
                   add_bot_log(@, thr[t].bot, Info("Webhook processed successfully"))]
            /\ m_response' = webhook_ok(thr[t].bot)
    /\ thr' = Goto(t, "done")
    /\ UNCHANGED <<vol, mnt, dirty, bot_instances, environ, stored_code, n_calls>>
    /\ UNCHANGED <<hash_of, procs, running_bots, bot_logs, bot_errors, bot_file,
                   response, last_ok>>

\* handle_webhook for a bot that is not in bot_instances and whose files are
\* found under u, up to await bot_handler.initialize() in load_bot_instance:
\* the volume is reloaded, the files are read, BOT_TOKEN is set and the code
\* is executed and defines a handler
hook_load(t, b, u) ==
    /\ thr[t].pc \in {"idle", "done"}
    /\ n_calls.hooks < MaxHooks
    /\ b \notin DOMAIN bot_instances
    /\ u \in user_dirs(Reloaded("web"), b)
    /\ MetaJson(u, b) \in DOMAIN Reloaded("web") /\ MainPy(u, b) \in DOMAIN Reloaded("web")
    /\ DefinesHandler(ReadText(Reloaded("web")[MainPy(u, b)]))
    /\ n_calls' = [n_calls EXCEPT !.hooks = @ + 1]
    /\ mnt' = [mnt EXCEPT !["web"] = Reloaded("web")]
    /\ environ' = load_environ(b, u, Reloaded("web"), "none")
    /\ m_bot_logs' = [m_bot_logs EXCEPT !["web"] =
            add_bot_logs(@, b, <<Info("Received webhook"), Info("Loading bot instance"),
                                 Info("Bot code loaded from volume")>>)]
    /\ thr' = [thr EXCEPT ![t] =
                 [ThreadIdle EXCEPT !.pc = "initialize", !.op = "handle_webhook", !.bot = b,
                                    !.held = [handler |-> ReadText(Reloaded("web")[MainPy(u, b)]),
                                              metadata |-> Reloaded("web")[MetaJson(u, b)]]]]
    /\ UNCHANGED <<vol, dirty, bot_instances, m_response, stored_code>>
    /\ UNCHANGED <<hash_of, procs, running_bots, bot_logs, bot_errors, bot_file,
                   response, last_ok>>

\* bot_handler.initialize() returns, or raises.  When it returns the handle
\* is installed and handle_webhook goes on to process_update; when it raises
\* handle_webhook looks the bot up in bot_instances all the same
initialize_returns(t, ok) ==
    /\ thr[t].pc = "initialize"
    /\ bot_instances' = IF ok THEN DictSet(bot_instances, thr[t].bot,
                                           [handler |-> thr[t].held.handler,
                                            metadata |-> thr[t].held.metadata])
                        ELSE bot_instances
    /\ IF thr[t].bot \in DOMAIN bot_instances'
       THEN /\ m_bot_logs' = [m_bot_logs EXCEPT !["web"] =
                   add_bot_log(@, thr[t].bot,
                               IF ok THEN Info("Bot loaded and initialized successfully")
                               ELSE Err("Error loading bot"))]
            /\ m_response' = m_response
            /\ thr' = Goto(t, "process_update")
       ELSE /\ m_bot_logs' = [m_bot_logs EXCEPT !["web"] =
                   add_bot_logs(@, thr[t].bot, <<Err("Error loading bot"),
                                                 Err("Bot not found or not loaded")>>)]
            /\ m_response' = bot_not_found(thr[t].bot)
            /\ thr' = Goto(t, "done")
    /\ UNCHANGED <<vol, mnt, dirty, environ, stored_code, n_calls>>
    /\ UNCHANGED <<hash_of, procs, running_bots, bot_logs, bot_errors, bot_file,
                   response, last_ok>>

\* two webhook requests in the event loop of the web service, for a bot that
\* is stored and not resident
LoadRaceNext ==
    \/ \E code \in {GoodCode, NewCode} :
           /\ n_calls.stores < MaxHookStores
           /\ optimized_store_bot_files("s1", "b1", "u1", code, "tok")
           /\ UNCHANGED runnerVars
    \/ \E t \in Threads : hook_load(t, "b1", "u1") /\ TRUE
    \/ \E t \in Threads, ok \in BOOLEAN : initialize_returns(t, ok) /\ TRUE
    \/ \E t \in Threads, processed \in Processed : process_update_returns(t, processed) /\ TRUE

SpecLoadRace == ConcInit /\ [][LoadRaceNext]_vars

\* thread 1 serves the runner's webhook route, task 2 the web service's;
\* one bot on each side
ForwardNext ==
    \/ create_bot("b1", "code1", TRUE) /\ UNCHANGED modalVars
    \/ webhook_received(1, "b1") /\ UNCHANGED modalVars
    \/ \E o \in {"completed", "timeout", "refused"}, p \in {0} \cup Pids :
           webhook_post(1, o, p) /\ UNCHANGED modalVars
    \/ /\ n_calls.stores < MaxHookStores
       /\ optimized_store_bot_files("s1", "b1", "u1", GoodCode, "tok")
       /\ UNCHANGED runnerVars
    \/ \E reload_ok \in BOOLEAN, u \in {"u1", "none"} :
           hook_begin(2, "b1", reload_ok, u, "none") /\ TRUE
    \/ \E processed \in Processed : process_update_returns(2, processed) /\ TRUE

\* requests.post is given timeout=10, so a pending POST always ends; nothing
\* bounds the time process_update takes
SpecForward ==
    /\ ConcInit
    /\ [][ForwardNext]_vars
    /\ WF_vars(\E o \in {"completed", "timeout", "refused"}, p \in {0} \cup Pids :
                   webhook_post(1, o, p) /\ UNCHANGED modalVars)

(***************************************************************************)
(* Modal runtime: add_bot_log called over and over                         *)
(***************************************************************************)
\* the n-th entry appended to a bot's log
LogEntry(n) == [level |-> IF n % 2 = 0 THEN "INFO" ELSE "ERROR", msg |-> n]

\* add_bot_log(bot_id, message, level) in the web container
log_call(b) ==
    /\ n_calls.appends[b] < (IF b = "b1" THEN LogCapacity + MaxOverflow ELSE MaxOther)
    /\ n_calls' = [n_calls EXCEPT !.appends[b] = @ + 1]
    /\ m_bot_logs' = [m_bot_logs EXCEPT !["web"] =
           add_bot_log(@, b, LogEntry(n_calls.appends[b] + 1))]
    /\ m_response' = [NoMResponse EXCEPT !.op = "log", !.ctx = "web", !.bot = b]
    /\ UNCHANGED <<vol, mnt, dirty, bot_instances, environ, stored_code>>

LogNext == \E b \in Bots : log_call(b) /\ UNCHANGED runnerVars

SpecLog == MInit /\ [][LogNext]_vars

(***************************************************************************)
(* Claims about the runner server, one request at a time                   *)
(***************************************************************************)
\* the processes of bot b that are still running
LiveProcs(b) == {p \in Pids : procs[p].bot = b /\ procs[p].st = "alive"}

\* C1: after any sequence of completed create_bot, update_bot_code and
\* stop_bot requests every botId has at most one live spawned process, and
\* that process is the one registered in running_bots.
C1_AtMostOneLiveProcess ==
    \A b \in Bots :
        /\ Cardinality(LiveProcs(b)) <= 1
        /\ \A p \in LiveProcs(b) : b \in DOMAIN running_bots /\ running_bots[b] = p

\* C2: webhook_handler answers every webhook with success=true, whatever the
\* forwarding POST did: forwarded is true exactly when the POST completed, and
\* a failed forward is appended to the bot's log when the bot has one.
C2_WebhookAlwaysAcknowledged ==
    response.op = "webhook" =>
        /\ response.kind = "json"
        /\ response.success
        /\ response.forwarded <=> (response.outcome = "completed")
        /\ (response.outcome # "completed" /\ response.bot \in DOMAIN bot_logs)
              => /\ Len(bot_logs[response.bot]) >= 1
                 /\ bot_logs[response.bot][Len(bot_logs[response.bot])] = "WEBHOOK ERROR"

\* a forward that was refused, for a bot that has a log
C2_Witness ==
    /\ response.op = "webhook"
    /\ response.outcome = "refused"
    /\ ~response.forwarded
    /\ response.bot \in DOMAIN bot_logs

\* C5: a webhook for a botId with no entry in running_bots is answered
\* forwarded=false and its update reaches no bot process.
C5_UnregisteredBotNotForwarded ==
    (response.op = "webhook" /\ response.bot \notin DOMAIN running_bots)
        => (~response.forwarded /\ response.to = 0)

\* C6: status(b) answers running=true when the last successful lifecycle
\* request for b was a create_bot or update_bot_code whose process is still
\* alive, and running=false when it was a stop_bot.
C6_StatusFollowsLifecycle ==
    response.op = "status" =>
        LET l == last_ok[response.bot] IN
        /\ (l.op \in {"create", "update"} /\ procs[l.pid].st = "alive") => response.running
        /\ l.op = "stop" => ~response.running

\* status asked after a create_bot and a later stop_bot of the same bot
C6_Witness ==
    /\ response.op = "status"
    /\ last_ok[response.bot].op = "stop"
    /\ ~response.running

\* status asked while the created process is alive
C6_WitnessRunning ==
    /\ response.op = "status"
    /\ last_ok[response.bot].op = "create"
    /\ response.running

(***************************************************************************)
(* Claims about the runner server under concurrent requests                *)
(***************************************************************************)
\* C8: of two stop_bot requests for one botId, issued one after the other or
\* concurrently, each ends with success=true or with success=false and the
\* error 'Bot not found'; neither ends in an unhandled exception.
C8_StopTwiceNeverRaises ==
    \A t \in Threads :
        (thr[t].pc = "done" /\ thr[t].op = "stop_bot") =>
            /\ thr[t].result.kind = "json"
            /\ thr[t].result.success \/ thr[t].result.error = "Bot not found"

(***************************************************************************)
(* Claims about storing and loading in the Modal runtime                   *)
(***************************************************************************)
\* C7: after optimized_store_bot_files(b, u, code, ...) returned success and
\* no other store for (u, b) was made since, optimized_load_bot_files(b, u),
\* in the same or in another container, returns success with
\* files['main.py'] identical to code.
C7_StoreLoadRoundTrip ==
    (m_response.op = "load" /\ stored_code[<<m_response.user, m_response.bot>>].ok) =>
        /\ m_response.success
        /\ m_response.has_main
        /\ m_response.main = stored_code[<<m_response.user, m_response.bot>>].code

\* a request body with user_id, bot_code or bot_token missing or empty
Incomplete(body) ==
    \/ ~body.user_id.given \/ body.user_id.val = ""
    \/ ~body.bot_code.given \/ body.bot_code.val = << >>
    \/ ~body.bot_token.given \/ body.bot_token.val = ""

\* C10: a store-bot request with user_id, bot_code or bot_token missing or
\* empty reports success=false with an error and writes nothing:
\* optimized_store_bot_files is not invoked and the volume is unchanged.
C10_IncompleteStoreWritesNothing ==
    [][(m_response'.op = "store" /\ Incomplete(m_response'.body)) =>
          /\ ~m_response'.success
          /\ m_response'.error # ""
          /\ ~m_response'.invoked
          /\ vol' = vol /\ mnt' = mnt /\ dirty' = dirty
          /\ n_calls' = n_calls]_vars

\* an incomplete store-bot request answered while the volume holds a bot
C10_Witness ==
    /\ m_response.op = "store"
    /\ Incomplete(m_response.body)
    /\ ~m_response.success
    /\ vol # EmptyDict

\* C3: handle_webhook answers every webhook with a normal acknowledgement,
\* never an HTTP error, also when Update.de_json or process_update raises.
C3_WebhookFailureNotSurfaced ==
    m_response.op = "webhook" => m_response.http = 200

\* C4: a webhook for a bot that is not in bot_instances and has no directory
\* under any tenant is answered {ok: false, error: "Bot not found"} with no
\* HTTP error, and bot_instances stays as it was.
C4_UnknownBotNotFound ==
    [][\A b \in Bots :
          (/\ n_calls'.hooks = n_calls.hooks + 1
           /\ m_response'.bot = b
           /\ b \notin DOMAIN bot_instances
           /\ user_dirs(vol, b) = {})
          => /\ m_response'.op = "webhook"
             /\ m_response'.http = 200
             /\ ~m_response'.success
             /\ m_response'.error = "Bot not found"
             /\ bot_instances' = bot_instances]_vars

\* a webhook for a bot with no record, answered while another bot is stored
C4_Witness ==
    /\ m_response.op = "webhook"
    /\ m_response.error = "Bot not found"
    /\ m_response.bot \notin DOMAIN bot_instances
    /\ user_dirs(vol, m_response.bot) = {}
    /\ vol # EmptyDict

\* C9: a bot's in-memory log never holds more than 1000 entries, and after n
\* appends it holds the last min(n, 1000) appended entries in append order.
C9_LogKeepsLastEntries ==
    \A b \in DOMAIN m_bot_logs["web"] :
        LET log == m_bot_logs["web"][b]
            n == n_calls.appends[b]
        IN  /\ Len(log) <= LogCapacity
            /\ Len(log) = (IF n <= LogCapacity THEN n ELSE LogCapacity)
            /\ \A i \in 1..Len(log) : log[i] = LogEntry(n - Len(log) + i)

\* a log that was appended to more than 1000 times
C9_Witness ==
    /\ n_calls.appends["b1"] > LogCapacity
    /\ Len(m_bot_logs["web"]["b1"]) = LogCapacity
    /\ m_bot_logs["web"]["b1"][1] = LogEntry(n_calls.appends["b1"] - LogCapacity + 1)

\* C11: a successful optimized_store_bot_files for (u, b) replaces the record
\* stored before: the committed main.py is the code of this call and the
\* metadata status is 'stored', whatever was stored there, and a load of
\* (u, b) that follows the store returns that code and that status.
C11_StoreOverwrites ==
    [][/\ (/\ n_calls'.stores = n_calls.stores + 1
           /\ m_response'.success)
          => LET u == m_response'.user
                 b == m_response'.bot
             IN  /\ vol'[MainPy(u, b)] = m_response'.body.bot_code.val
                 /\ vol'[MetaJson(u, b)].status = "stored"
       /\ (/\ n_calls'.reads = n_calls.reads + 1
           /\ m_response.op = "store" /\ m_response.success
           /\ m_response'.user = m_response.user /\ m_response'.bot = m_response.bot)
          => /\ m_response'.success
             /\ m_response'.main = m_response.body.bot_code.val
             /\ m_response'.status = "stored"]_vars

\* a load that returns the second of two different codes stored for (u, b)
C11_Witness ==
    /\ m_response.op = "load" /\ m_response.success
    /\ LET s == stored_code[<<m_response.user, m_response.bot>>]
       IN  /\ s.ok /\ s.prev # << >> /\ s.prev # s.code
           /\ m_response.main = s.code
           /\ m_response.status = "stored"

\* a load after the same code was stored twice for (u, b)
C11_WitnessSameCode ==
    /\ m_response.op = "load" /\ m_response.success
    /\ LET s == stored_code[<<m_response.user, m_response.bot>>]
       IN  s.ok /\ s.prev = s.code /\ m_response.main = s.code

(***************************************************************************)
(* Claims about the runner server's lifecycle requests                     *)
(***************************************************************************)
\* C12: when the spawn of create_bot raises, running_bots is what it was
\* before the request, no process was started (no retry), the bot's log ends
\* with the STARTUP ERROR entry of the error and the answer is success=false
\* with the error.
C12_SpawnFailureLeavesRegistry ==
    [][(response'.op = "create_bot" /\ response'.kind = "json" /\ ~response'.success)
          => /\ running_bots' = running_bots
             /\ procs' = procs
             /\ response'.bot \in DOMAIN bot_logs'
             /\ bot_logs'[response'.bot] # << >>
             /\ bot_logs'[response'.bot][Len(bot_logs'[response'.bot])]
                    = "STARTUP ERROR: spawn failed"
             /\ response'.error = "spawn failed"]_vars

\* a failed create_bot for a bot that was registered, and stays so
C12_Witness ==
    /\ response.op = "create_bot" /\ response.kind = "json" /\ ~response.success
    /\ response.bot \in DOMAIN running_bots
    /\ bot_logs[response.bot] = <<"STARTUP ERROR: spawn failed">>

\* C13: a stop_bot(b) that finds b in running_bots terminates the process
\* registered for b and no other, removes b from running_bots and answers
\* success=true.
C13_StopTerminatesRegistered ==
    [][\A b \in Bots :
          (response'.op = "stop_bot" /\ response'.bot = b /\ b \in DOMAIN running_bots)
          => /\ response'.kind = "json" /\ response'.success
             /\ procs'[running_bots[b]].st # "alive"
             /\ \A p \in Pids \ {running_bots[b]} : procs'[p] = procs[p]
             /\ DOMAIN procs' = DOMAIN procs
             /\ b \notin DOMAIN running_bots'
             /\ \A o \in Bots \ {b} :
                    /\ (o \in DOMAIN running_bots') = (o \in DOMAIN running_bots)
                    /\ o \in DOMAIN running_bots => running_bots'[o] = running_bots[o]]_vars

\* a stop that terminated the registered process while another process lives
C13_Witness ==
    /\ response.op = "stop_bot" /\ response.success
    /\ procs[last_ok[response.bot].pid].st = "terminated"
    /\ \E p \in Pids : procs[p].st = "alive"

\* C15: when update_bot_code stopped the running bot and its spawn raises, the
\* bot has no entry in running_bots, status would answer running=false, the
\* bot file holds the new code, and the answer is success=false with the error.
C15_FailedRestartLeavesStopped ==
    [][\A b \in Bots :
          (/\ response'.op = "update_bot_code" /\ response'.bot = b
           /\ ~response'.success
           /\ b \in DOMAIN running_bots)
          => /\ response'.kind = "json"
             /\ response'.error = "spawn failed"
             /\ b \notin DOMAIN running_bots'
             /\ ~(status_running(b))'
             /\ procs'[running_bots[b]].st # "alive"
             /\ bot_file'[b] = Written("update", response'.code)]_vars

\* a failed update of a running bot whose file held another code
C15_Witness ==
    /\ response.op = "update_bot_code" /\ ~response.success
    /\ last_ok[response.bot].op \in {"create", "update"}
    /\ procs[last_ok[response.bot].pid].st = "terminated"
    /\ response.bot \notin DOMAIN running_bots
    /\ bot_file[response.bot] = Written("update", response.code)

\* C19: every request to the runner server is answered with a JSON envelope;
\* none ends in an unhandled exception.
C19_EveryErrorCaught ==
    response.op # "none" => response.kind = "json"

(***************************************************************************)
(* Claims about the steps of update_bot_code                               *)
(***************************************************************************)
\* an update_bot_code request is being served
Updating == thr[1].op = "update_bot_code" /\ thr[1].pc \notin {"idle", "done"}

\* C14 as stated: update_bot_code stops the bot, overwrites the source, clears
\* the logs and starts again, in this order: when it clears the bot's log the
\* new source is already written.
C14_OverwriteBeforeClear ==
    [][(Updating /\ bot_logs' # bot_logs)
          => /\ thr[1].bot \in DOMAIN bot_file
             /\ bot_file[thr[1].bot] = Written("update", "code2")]_vars

\* C14 as the code has it: stop-if-running, clear the logs, overwrite the
\* source, start again.  The log is cleared only when the bot is out of
\* running_bots; the source is overwritten only when the bot is out of
\* running_bots and its log is empty; the new process is spawned only when the
\* bot is out of running_bots, its log is empty and the new source is written;
\* the step that takes a registered bot out of running_bots terminates the
\* registered process and touches neither the log nor the source.
C14_StopClearOverwriteStart ==
    [][Updating =>
          LET b == thr[1].bot IN
          /\ bot_logs' # bot_logs => b \notin DOMAIN running_bots
          /\ bot_file' # bot_file =>
                /\ b \notin DOMAIN running_bots
                /\ b \in DOMAIN bot_logs /\ bot_logs[b] = << >>
          /\ procs' # procs /\ Len(procs') > Len(procs) =>
                /\ b \notin DOMAIN running_bots
                /\ b \in DOMAIN bot_logs /\ bot_logs[b] = << >>
                /\ b \in DOMAIN bot_file /\ bot_file[b] = Written("update", "code2")
          /\ running_bots' # running_bots /\ b \in DOMAIN running_bots =>
                /\ procs'[running_bots[b]].st # "alive"
                /\ b \notin DOMAIN running_bots'
                /\ bot_logs' = bot_logs /\ bot_file' = bot_file]_vars

\* an update that restarted a bot that was running and had written its file
C14_Witness ==
    /\ thr[1].op = "update_bot_code" /\ thr[1].pc = "done"
    /\ thr[1].result.success
    /\ \E p \in Pids : procs[p].bot = thr[1].bot /\ procs[p].st = "terminated"
    /\ bot_file[thr[1].bot] = Written("update", "code2")
    /\ bot_logs[thr[1].bot] = << >>

(***************************************************************************)
(* Claims about webhooks in the Modal runtime                              *)
(***************************************************************************)
\* the web container's log of bot b
WebLog(b) == IF b \in DOMAIN m_bot_logs["web"] THEN m_bot_logs["web"][b] ELSE << >>

\* C16: a webhook for a bot that is not in bot_instances and whose stored
\* record yields an application loads the instance from the volume, installs
\* it in bot_instances and has it process the update, all in that request
\* (nothing raising); a webhook for a bot that is in bot_instances leaves
\* bot_instances as it is and does not reload the volume.
C16_LazyLoadThenReuse ==
    [][\A b \in Bots :
          (n_calls'.hooks = n_calls.hooks + 1 /\ m_response'.bot = b) =>
          /\ (/\ b \notin DOMAIN bot_instances
              /\ user_dirs(vol, b) # {}
              /\ \A u \in user_dirs(vol, b) :
                     /\ MetaJson(u, b) \in DOMAIN vol
                     /\ MainPy(u, b) \in DOMAIN vol /\ vol[MainPy(u, b)] = GoodCode
              /\ m_response'.met.reload_ok
              /\ m_response'.met.raises = "none"
              /\ m_response'.met.parsed = "update"
              /\ m_response'.met.processed = "ok")
             => /\ b \in DOMAIN bot_instances'
                /\ \E u \in user_dirs(vol, b) :
                       bot_instances'[b] = [handler |-> GoodCode,
                                            metadata |-> vol[MetaJson(u, b)]]
                /\ mnt'["web"] = vol
                /\ m_response'.http = 200 /\ m_response'.success
                /\ m_bot_logs'["web"][b][Len(m_bot_logs'["web"][b])]
                       = Info("Webhook processed successfully")
          /\ b \in DOMAIN bot_instances
             => /\ bot_instances' = bot_instances
                /\ mnt'["web"] = mnt["web"]]_vars

\* a second webhook processed by the instance that the first one loaded
C16_Witness ==
    /\ m_response.op = "webhook" /\ m_response.success
    /\ m_response.bot \in DOMAIN bot_instances
    /\ LET log == WebLog(m_response.bot) IN
       /\ Cardinality({i \in 1..Len(log) : log[i] = Info("Loading bot instance")}) = 1
       /\ Cardinality({i \in 1..Len(log) :
                          log[i] = Info("Webhook processed successfully")}) = 2

\* C17: a webhook for bot b is processed by an instance made from the record
\* of the tenant that owns b, never from another tenant's record: whichever
\* tenant has a record for b, the instance that processed the webhook is its.
C17_TenantIsolation ==
    (m_response.op = "webhook" /\ m_response.success) =>
        \A u \in user_dirs(vol, m_response.bot) :
            bot_instances[m_response.bot].metadata.user_id = u

(***************************************************************************)
(* Claims about forwarding in the runner server                            *)
(***************************************************************************)
\* the updates sent to all processes so far
RECURSIVE Sent(_, _)
Sent(ps, n) == IF n = 0 THEN 0 ELSE Len(ps[n].got) + Sent(ps, n - 1)

C18_CommitBeforeSuccessReloadBeforeRead ==
    [][LET r == m_response'
           c == r.ctx
           u == r.user
           b == r.bot
       IN
       /\ (r.op \in {"store", "append"} /\ r.invoked /\ r.success)
          => /\ dirty'[c] = {}
             /\ \A p \in DOMAIN mnt'[c] :
                    (p[1] = u /\ p[2] = b) => (p \in DOMAIN vol' /\ vol'[p] = mnt'[c][p])
       /\ (r.op = "store" /\ r.invoked /\ r.success)
          => /\ MainPy(u, b) \in DOMAIN vol'
             /\ ReadText(vol'[MainPy(u, b)]) = r.body.bot_code.val
       /\ (r.op = "append" /\ r.success)
          => /\ BotLog(u, b) \in DOMAIN vol'
             /\ vol'[BotLog(u, b)] = Append(LogLines(vol, u, b), "m1")
       /\ r.op = "load"
          => /\ mnt'[c] = vol
             /\ r.success = (MainPy(u, b) \in DOMAIN vol)
             /\ r.success => r.main = ReadText(vol[MainPy(u, b)])
       /\ (r.op = "getlogs" /\ r.invoked /\ r.success)
          => /\ mnt'[c] = vol
             /\ r.logs = IF LogLines(vol, u, b) = << >>
                         THEN <<"No logs available", "Bot may not have been started yet">>
                         ELSE LogLines(vol, u, b)
       /\ (r.op = "getlogs" /\ ~r.body.user_id.given /\ r.error # "reload")
          => /\ mnt'["web"] = vol
             /\ IF r.invoked THEN u \in user_dirs(vol, b) ELSE user_dirs(vol, b) = {}
       /\ (r.op = "getlogs" /\ ~r.body.user_id.given /\ r.invoked)
          => /\ mnt'["web"] = vol
             /\ u \in user_dirs(vol, b)
       /\ (r.op = "webhook" /\ b \notin DOMAIN bot_instances /\ r.met.reload_ok)
          => /\ mnt'["web"] = vol
             /\ IF r.met.user = "none" THEN user_dirs(vol, b) = {}
                ELSE r.met.user \in user_dirs(vol, b)
             /\ b \in DOMAIN bot_instances'
                => bot_instances'[b].handler = ReadText(vol[MainPy(r.met.user, b)])]_vars

\* the log of a bot written by the store container and then by the append
\* container is returned whole by the log container, for a request that gave
\* no user_id
C18_Witness ==
    /\ m_response.op = "getlogs" /\ m_response.ctx = "g1" /\ m_response.success
    /\ ~m_response.body.user_id.given
    /\ m_response.logs = <<"stored successfully", "m1">>
    /\ mnt["s1"] # vol /\ mnt["a1"] = vol

\* a webhook request loads, in the web container, the source another
\* container stored
C18_WitnessWebhook ==
    /\ m_response.op = "webhook" /\ m_response.success
    /\ "b1" \in DOMAIN bot_instances
    /\ \E u \in Users : /\ MainPy(u, "b1") \in DOMAIN mnt["s1"]
                        /\ bot_instances["b1"].handler = ReadText(mnt["s1"][MainPy(u, "b1")])

(***************************************************************************)
(* Claims about concurrent lifecycle requests                              *)
(***************************************************************************)
\* no request is in progress
Quiet == \A t \in DOMAIN thr : thr[t].pc \in {"idle", "done"}

\* C21: under any interleaving of concurrent lifecycle requests, when all
\* requests have finished every process that is alive is the one registered in
\* running_bots for its bot (no orphaned process, no two live processes of a
\* bot).
C21_QuietMeansNoOrphan ==
    Quiet => \A p \in Pids :
                 procs[p].st = "alive"
                 => /\ procs[p].bot \in DOMAIN running_bots
                    /\ running_bots[procs[p].bot] = p

(***************************************************************************)
(* Claims about suspended webhook requests                                 *)
(***************************************************************************)
\* C22: every inbound webhook request eventually receives a response, even
\* when the bot it is handed to never answers.
C22_WebhookEventuallyAnswered ==
    \A t \in Threads :
        (thr[t].op \in {"webhook", "handle_webhook"} /\ thr[t].pc # "done")
            ~> (thr[t].pc = "done")

C23_WitnessSuccess ==
    /\ m_response.op = "store" /\ m_response.success
    /\ MainPy(m_response.user, m_response.bot) \in DOMAIN vol
    /\ vol[MainPy(m_response.user, m_response.bot)] = m_response.body.bot_code.val
    /\ MetaJson(m_response.user, m_response.bot) \in DOMAIN vol

(***************************************************************************)
(* Claims about the log file on the volume                                 *)
(***************************************************************************)
IsPrefix(s, t) == Len(s) <= Len(t) /\ SubSeq(t, 1, Len(s)) = s

\* C24: the committed logs/bot.log of a bot is append-only: every operation
\* leaves the file in place with its earlier content as a prefix of the new.
C24_VolumeLogAppendOnly ==
    [][\A u \in Users, b \in Bots :
           BotLog(u, b) \in DOMAIN vol
           => /\ BotLog(u, b) \in DOMAIN vol'
              /\ IsPrefix(vol[BotLog(u, b)], vol'[BotLog(u, b)])]_vars

(***************************************************************************)
(* Claims about the stored source of the runner server                     *)
(***************************************************************************)
\* C25: once create_bot (or update_bot_code) has written the source of a bot,
\* get_bot_errors returns a non-empty botCode for it, whatever stop_bot,
\* update_bot_code and webhook requests came in between.
C25_SourceStaysRetrievable ==
    (response.op = "get_bot_errors" /\ response.bot \in DOMAIN bot_errors)
        => response.code # ""

(***************************************************************************)
(* Claims about bot processes and their capture threads                    *)
(***************************************************************************)
\* the process registered for bot b has exited on its own
RegisteredExited(b) ==
    IF b \in DOMAIN running_bots THEN procs[running_bots[b]].st = "exited" ELSE FALSE

\* C26: whenever a registered bot process has exited on its own, its entry is
\* eventually removed from running_bots.
C26_ExitedEventuallyUnregistered ==
    \A b \in Bots : RegisteredExited(b) ~> (b \notin DOMAIN running_bots)

\* process p is running and has written a line that is not yet read
HasUnreadOutput(p) ==
    IF p \in Pids
    THEN procs[p].st = "alive" /\ procs[p].out.stdout + procs[p].out.stderr > 0
    ELSE FALSE

\* process p has ended, or its bot's log holds an entry
EndedOrLogged(p) ==
    IF p \in Pids
    THEN \/ procs[p].st # "alive"
         \/ (procs[p].bot \in DOMAIN bot_logs /\ bot_logs[procs[p].bot] # << >>)
    ELSE TRUE

\* C27: every line a running bot process writes to stdout or stderr is
\* eventually appended to the bot's log, for as long as the process runs.
C27_OutputEventuallyLogged ==
    \A p \in 1..MaxProcs : HasUnreadOutput(p) ~> EndedOrLogged(p)

(***************************************************************************)
(* Claims about the stored code and the resident instances                 *)
(***************************************************************************)
\* C28: a webhook that a bot's instance has processed was processed by an
\* instance built from the code now stored for the bot: after store-bot has
\* overwritten the code of a resident bot, the next webhook runs the new code.
C28_WebhookRunsStoredCode ==
    (m_response.op = "webhook" /\ m_response.success) =>
        LET b == m_response.bot
            u == bot_instances[b].metadata.user_id
        IN  /\ MainPy(u, b) \in DOMAIN vol
            /\ bot_instances[b].handler = ReadText(vol[MainPy(u, b)])

(***************************************************************************)
(* Claims about what a request leaves alone                                *)
(***************************************************************************)
\* dictionaries d and e agree on key k
SameAt(d, e, k) == (k \in DOMAIN d <=> k \in DOMAIN e) /\ (k \in DOMAIN d => d[k] = e[k])

\* C29: create_bot, stop_bot, update_bot_code and webhook_handler for a bot
\* leave the registry entry, the log, the last error and the stored source of
\* every other bot as they were.
C29_OtherBotsUntouched ==
    [][\A a \in Bots :
           (/\ response'.bot = a
            /\ response'.op \in {"create_bot", "stop_bot", "update_bot_code", "webhook"})
           => \A b \in Bots \ {a} :
                  /\ SameAt(running_bots, running_bots', b)
                  /\ SameAt(bot_logs, bot_logs', b)
                  /\ SameAt(bot_errors, bot_errors', b)
                  /\ SameAt(bot_file, bot_file', b)]_vars

\* b1 was stopped while b2 was registered, with a log entry and its source
C29_Witness ==
    /\ response.op = "stop_bot" /\ response.success /\ response.bot = "b1"
    /\ "b1" \notin DOMAIN bot_file
    /\ "b2" \in DOMAIN running_bots /\ "b2" \in DOMAIN bot_file
    /\ "b2" \in DOMAIN bot_logs /\ bot_logs["b2"] # << >>

(***************************************************************************)
(* Claims about the size of the runner server's logs                       *)
(***************************************************************************)
\* C30: the log the runner server keeps for a bot never holds more entries
\* than a fixed capacity.  The runner names no capacity; the one of the Modal
\* runtime's log is taken.
C30_RunnerLogBounded ==
    \A b \in DOMAIN bot_logs : Len(bot_logs[b]) <= LogCapacity

(***************************************************************************)
(* Claims about the rewriting of submitted source                          *)
(***************************************************************************)
\* the ports written into the text of the bot file of b
WrittenPorts(b) ==
    LET text == FileText(b)
    IN  {text[i].port : i \in {j \in 1..Len(text) : text[j].bot # "none"}}

\* C31: the port of a bot lies in 5000..5999, and every port that create_bot
\* or update_bot_code wrote into the bot's code, at whatever time in the life
\* of the server process, is the port webhook_handler forwards to now.
C31_PortDeterministic ==
    \A b \in Bots :
        /\ Port(b) \in 5000..5999
        /\ b \in DOMAIN bot_file => \A q \in WrittenPorts(b) : q = Port(b)

\* a webhook for b1 reached the process whose code carries the port, under a
\* negative hash
C31_Witness ==
    /\ response.op = "webhook" /\ response.forwarded /\ response.to # 0
    /\ hash_of["b1"] < 0
    /\ "b1" \in DOMAIN bot_file /\ WrittenPorts("b1") = {Port("b1")}

\* C39: the text update_bot_code writes is the text create_bot would write
\* for the same botId and source.
C39_UpdateRewritesAsCreate ==
    \A b \in DOMAIN bot_file :
        bot_file[b].by = "update"
            => update_webhook_code(b, bot_file[b].src) = create_webhook_code(b, bot_file[b].src)

(***************************************************************************)
(* Claims about the logs route                                             *)
(***************************************************************************)
IsSuffix(s, t) == Len(s) <= Len(t) /\ SubSeq(t, Len(t) - Len(s) + 1, Len(t)) = s

\* C32: the logs route answers with entries of the bot's log only, in the
\* order they were appended (a suffix of the log), and with an empty list for
\* a bot that has no entries.
C32_LogsAnswerIsSuffix ==
    response.op = "logs"
        => IsSuffix(response.logs,
                    IF response.bot \in DOMAIN bot_logs THEN bot_logs[response.bot] ELSE << >>)

(***************************************************************************)
(* Claims about the credentials of the resident bots                       *)
(***************************************************************************)
\* C40: the BOT_TOKEN a resident bot's code reads is the token of its own
\* metadata, whatever other bots were loaded since.
C40_ResidentBotReadsOwnToken ==
    \A b \in DOMAIN bot_instances :
        /\ "BOT_TOKEN" \in DOMAIN environ
        /\ environ["BOT_TOKEN"] = bot_instances[b].metadata.bot_token

(***************************************************************************)
(* Claims about concurrent loads in the web service                        *)
(***************************************************************************)
\* the handlers that passed the "not in bot_instances" test for b, executed
\* its code and have not installed their handle yet
Loading(b) ==
    {t \in DOMAIN thr : thr[t].op = "handle_webhook" /\ thr[t].pc = "initialize"
                        /\ thr[t].bot = b}

\* C33: at no time have two handlers both passed the "not in bot_instances"
\* test for one bot and executed its code, each about to install a handle.
C33_AtMostOneLoadPerBot == \A b \in Bots : Cardinality(Loading(b)) <= 1

(***************************************************************************)
(* Claims about the ports of the running bots                              *)
(***************************************************************************)
\* C34: with A and B both running, A # B, a webhook received for A is not
\* forwarded to the port on which B's process listens: it does not reach the
\* live process registered for B.
C34_RunningBotsDoNotSharePort ==
    (response.op = "webhook" /\ response.to # 0)
        => LET A == response.bot
               B == procs[response.to].bot
           IN  ~ /\ A # B
                 /\ A \in DOMAIN running_bots /\ Polls(running_bots[A])
                 /\ B \in DOMAIN running_bots /\ running_bots[B] = response.to

(***************************************************************************)
(* Claims about the log file on the volume                                 *)
(***************************************************************************)
\* the entries of a list that are among the given messages, in their order
RECURSIVE Among(_, _)
Among(list, msgs) ==
    IF list = << >> THEN << >>
    ELSE (IF Head(list) \in msgs THEN <<Head(list)>> ELSE << >>) \o Among(Tail(list), msgs)

\* C35: the list get_bot_logs_from_volume(b, u) returns holds every message
\* appended before with append_bot_log_to_volume(b, u, m) once for each
\* append, in the order of the appends.  (Each successful append is recorded
\* in the memory log of the appending container.)
C35_AppendedOnceReturnedOnce ==
    (m_response.op = "getlogs" /\ m_response.ctx = "g1" /\ m_response.success)
        => Among(m_response.logs, {"m1", "m2"}) = MemoryLines("a1", "b1")

(***************************************************************************)
(* Claims about the capture threads of replaced processes                  *)
(***************************************************************************)
\* the processes of earlier runs: not the one running_bots names for the bot
PreviousRun(p) ==
    procs[p].bot \notin DOMAIN running_bots \/ running_bots[procs[p].bot] # p

C37_LoadSucceedsIffMainRead ==
    m_response.op = "load"
        => LET r == m_response
               view == mnt[r.ctx]
               dir == DirExists(view, r.user, r.bot)
               main == MainPy(r.user, r.bot) \in DOMAIN view
           IN  /\ r.success <=> (r.met.reload_ok /\ dir /\ main /\ r.met.raises # "main")
               /\ r.success => r.has_main /\ r.main = ReadText(view[MainPy(r.user, r.bot)])
               /\ (~r.met.reload_ok \/ ~dir) => ~r.success /\ ~r.has_main /\ ~r.has_meta

\* a load that succeeded with main.py alone: metadata.json was not there
C37_Witness ==
    /\ m_response.op = "load" /\ m_response.success /\ ~m_response.has_meta
    /\ MetaJson(m_response.user, m_response.bot) \notin DOMAIN mnt["l1"]

\* a load that failed in a directory that exists, for want of main.py
C37_WitnessNoMain ==
    /\ m_response.op = "load" /\ ~m_response.success /\ m_response.met.raises = "none"
    /\ DirExists(mnt["l1"], m_response.user, m_response.bot)

(***************************************************************************)
(* Claims about failed loads in the web service                            *)
(***************************************************************************)
\* the load that a webhook for b starts, with the files of tenant u as they
\* are committed, fails
LoadFails(b, u, raises) ==
    \/ raises # "none"
    \/ MetaJson(u, b) \notin DOMAIN vol \/ MainPy(u, b) \notin DOMAIN vol
    \/ ~DefinesHandler(ReadText(vol[MainPy(u, b)]))

\* the entries a step added to the web service's log of b
NewEntries(b, before, after) ==
    LET old == IF b \in DOMAIN before THEN Len(before[b]) ELSE 0
    IN  {after[b][i] : i \in (old + 1)..Len(after[b])}

\* C38: a webhook for a bot that is not resident and whose load fails (files
\* missing or unreadable, the code raising, no application or app object,
\* initialize() raising) leaves bot_instances as it was, logs the failure at
\* ERROR level and is answered ok=false "Bot not found".
C38_FailedLoadInstallsNothing ==
    [][\A b \in Bots :
          (/\ n_calls'.hooks = n_calls.hooks + 1
           /\ m_response'.bot = b
           /\ b \notin DOMAIN bot_instances
           /\ m_response'.met.user \in user_dirs(vol, b)
           /\ LoadFails(b, m_response'.met.user, m_response'.met.raises))
          => /\ bot_instances' = bot_instances
             /\ m_response'.op = "webhook" /\ m_response'.http = 200
             /\ ~m_response'.success /\ m_response'.error = "Bot not found"
             /\ \E e \in NewEntries(b, m_bot_logs["web"], m_bot_logs'["web"]) :
                    /\ e.level = "ERROR"
                    /\ e.msg \in {"Error loading bot",
                                  "No application instance found in bot code"}]_vars

\* a webhook whose load failed in initialize(), for a bot that is stored
\* with a handler
C38_Witness ==
    /\ m_response.op = "webhook" /\ m_response.error = "Bot not found"
    /\ m_response.met.raises = "initialize"
    /\ m_response.met.user \in user_dirs(vol, m_response.bot)
    /\ m_response.bot \notin DOMAIN bot_instances

====
